---- MODULE Spec2Model ----
(***************************************************************************)
(* Model of listen2me's audio dispatch pipeline.                            *)
(*                                                                         *)
(* Spec, FairSpec: TranscriptionAudioConsumer                              *)
(* (src/listen2me/transcription/consumers.py): the audio handler that      *)
(* accumulates frames and flushes tasks, the worker pool that takes tasks  *)
(* from task_queue and calls the backend, and shutdown().                  *)
(* Threads: one source thread (on_audio_chunk), max_concurrent_threads     *)
(* worker threads (_worker_loop) and one thread calling shutdown().        *)
(* Every step between two accesses of shared state is one action.          *)
(*                                                                         *)
(* The other objects of the pipeline are one record-valued variable each   *)
(* and have a specification of their own; an object that a specification   *)
(* does not construct has the value NotBuilt there.                        *)
(***************************************************************************)
EXTENDS Naturals, Integers, Sequences, FiniteSets, TLC

\* ------------------------------------------------------------------ bounds
\* Number of frames the source publishes at most.
MaxFrames == 2
\* trigger_chunks is drawn from 1..MaxTrigger.
MaxTrigger == 2
\* max_concurrent_threads is drawn from 1..MaxWorkers.
MaxWorkers == 2
\* shutdown(timeout): the number of one-second polls that fit in timeout
\* is drawn from 0..MaxPolls.
MaxPolls == 1

VARIABLES
    \* constructor parameters
    trigger_chunks, max_concurrent_threads,
    \* consumer fields
    audio_events, audio_buffer, chunks_in_buffer,
    task_queue, unfinished_tasks, chunk_counter, shutdown_event,
    \* source thread inside on_audio_chunk
    srcPc, pendingTask, nextSeq, finalSent,
    \* worker threads inside _worker_loop / _transcribe_buffer
    wpc, wtask, wtmp,
    \* thread inside shutdown()
    shPc, pollsLeft, sentinelsPut, joinIdx, shutdown_ret,
    \* history (observations only, never read by the program)
    received, enqueued, taskLog, drained, joinTimedOut, tasksAtShutdown,
    emitted,
    \* the other objects of the pipeline, one record each
    cleanup, consumers, bus, aggregator, backend, capture,
    \* the objects beside the pipeline, one record each
    rolling, cleaner, notes, engine, wiring

paramVars == <<trigger_chunks, max_concurrent_threads>>
bufferVars == <<audio_events, audio_buffer, chunks_in_buffer>>
queueVars == <<task_queue, unfinished_tasks>>
sourceVars == <<srcPc, pendingTask, nextSeq, finalSent>>
workerVars == <<wpc, wtask, wtmp>>
shutdownVars == <<shPc, pollsLeft, sentinelsPut, joinIdx, shutdown_ret>>
shutdownHist == <<drained, joinTimedOut, tasksAtShutdown>>
\* The objects outside the consumer.
beside == <<rolling, cleaner, notes, engine, wiring>>
outside == <<cleanup, consumers, bus, aggregator, backend, capture, beside>>
consumerVars == <<paramVars, bufferVars, queueVars, chunk_counter,
                  shutdown_event, sourceVars, workerVars, shutdownVars,
                  received, enqueued, taskLog, shutdownHist, emitted>>
vars == <<consumerVars, outside>>

\* ------------------------------------------------------------------ data
\* The consumer's name (TranscriptionService wires "realtime" and "batch").
name == "realtime"

Workers == 1..MaxWorkers
TaskIds == 1..MaxFrames

\* f"chunk_{chunk_id}" of create_dummy_audio_event.
FrameChunkId(seq) == "chunk_" \o ToString(seq)

\* An AudioEvent. audio_data is a byte sequence: frame seq carries the one
\* byte seq when it is non-empty, so bytes of different frames differ.
AudioEvent(seq, nonEmpty, final) ==
    [chunk_id        |-> FrameChunkId(seq),
     audio_data      |-> IF nonEmpty THEN <<seq>> ELSE <<>>,
     sequence_number |-> seq,
     final           |-> final]

\* TranscriptionTask; tid is the identity of the task object (0: the None
\* sentinel that shutdown() puts on the queue).
TranscriptionTask(tid, events, buffer, is_final) ==
    [tid |-> tid, audio_events |-> events, audio_buffer |-> buffer,
     is_final |-> is_final]

NoneTask == TranscriptionTask(0, <<>>, <<>>, FALSE)

IsSentinel(item) == item.tid = 0

\* What is recorded about one task: how often a worker took it, how often
\* task_done was called for it, the chunk_id composed for it and the counter
\* value in its suffix, how _transcribe_buffer ended for it and the number
\* of result_callback invocations. emitted lists the tasks in the order
\* result_callback was invoked for them.
NoLog == [taken |-> 0, done |-> 0, chunk_id |-> "", counter |-> 0,
          outcome |-> "pending", callbacks |-> 0]

\* The value of an object that a specification does not construct.
NotBuilt == "not_built"

\* A specification of the pipeline constructs none of the objects beside it.
BesideNotBuilt ==
    /\ rolling = NotBuilt
    /\ cleaner = NotBuilt
    /\ notes = NotBuilt
    /\ engine = NotBuilt
    /\ wiring = NotBuilt

\* ------------------------------------------------------------------ Init
\* TranscriptionAudioConsumer.__init__ and _start_workers.
ConsumerInitWith(triggers) ==
    /\ trigger_chunks \in triggers
    /\ max_concurrent_threads \in 1..MaxWorkers
    /\ audio_events = <<>>
    /\ audio_buffer = <<>>
    /\ chunks_in_buffer = 0
    /\ task_queue = <<>>
    /\ unfinished_tasks = 0
    /\ chunk_counter = 0
    /\ shutdown_event = FALSE
    /\ srcPc = "idle"
    /\ pendingTask = NoneTask
    /\ nextSeq = 0
    /\ finalSent = FALSE
    /\ wpc = [w \in Workers |-> IF w <= max_concurrent_threads THEN "get" ELSE "unused"]
    /\ wtask = [w \in Workers |-> NoneTask]
    /\ wtmp = [w \in Workers |-> 0]
    /\ shPc = "idle"
    /\ pollsLeft = 0
    /\ sentinelsPut = 0
    /\ joinIdx = 0
    /\ shutdown_ret = FALSE
    /\ received = <<>>
    /\ enqueued = <<>>
    /\ taskLog = [t \in TaskIds |-> NoLog]
    /\ drained = FALSE
    /\ joinTimedOut = FALSE
    /\ tasksAtShutdown = 0
    /\ emitted = <<>>

\* The service builds its consumers with a trigger of one frame or more.
ConsumerInit == ConsumerInitWith(1..MaxTrigger)

Init ==
    /\ ConsumerInit
    /\ cleanup = NotBuilt
    /\ consumers = NotBuilt
    /\ bus = NotBuilt
    /\ aggregator = NotBuilt
    /\ backend = NotBuilt
    /\ capture = NotBuilt
    /\ BesideNotBuilt

\* ------------------------------------------------------- on_audio_chunk
\* A flush that waits for one frame more than trigger_chunks.
ShouldTranscribeLate(count, final) ==
    \/ count > trigger_chunks
    \/ (final /\ count > 0)

\* should_transcribe_target or should_transcribe_final.
ShouldTranscribe(count, final) ==
    \/ count >= trigger_chunks
    \/ (final /\ count > 0)

\* A flush that copies the byte buffer and forgets to clear it.
BufferNotCleared(buffer) == buffer

\* _copy_and_clear_audio_buffer: what the accumulators hold after a flush.
ClearedBuffer(buffer) == <<>>
\* A flush that hands the task the list itself and does not clear it.
EventsNotCleared(events) == events
\* self.audio_events.clear(), after the task took self.audio_events.copy()
ClearedEvents(events) == <<>>
ClearedCount(count) == 0

\* A queue bounded by the size of the pool: queue.Queue(maxsize=pool size).
QueueFullBounded(q) == Len(q) >= max_concurrent_threads

\* queue.Queue(): maxsize 0, and put() blocks only while
\* maxsize > 0 and qsize() >= maxsize.
task_queue_maxsize == 0
QueueFull(q) == task_queue_maxsize > 0 /\ Len(q) >= task_queue_maxsize

\* An on_audio_chunk that never looks at the shutdown event.
DropsFrameNever(event_is_set) == FALSE

\* if self.shutdown_event.is_set(): return
DropsFrame(event_is_set) == event_is_set

\* on_audio_chunk up to the enqueue. The source publishes frames with
\* increasing sequence numbers and nothing after its final frame.
OnAudioChunk(nonEmpty, final) ==
    /\ srcPc = "idle"
    /\ nextSeq < MaxFrames
    /\ ~finalSent
    /\ LET event == AudioEvent(nextSeq + 1, nonEmpty, final)
           events == Append(audio_events, event)
           buffer == audio_buffer \o event.audio_data
           count == IF Len(event.audio_data) > 0
                    THEN chunks_in_buffer + 1 ELSE chunks_in_buffer
       IN /\ nextSeq' = nextSeq + 1
          /\ finalSent' = final
          /\ IF DropsFrame(shutdown_event)
             THEN UNCHANGED <<bufferVars, srcPc, pendingTask, received>>
             ELSE /\ received' = Append(received, event)
                  /\ IF ShouldTranscribe(count, event.final)
                     THEN /\ pendingTask' = TranscriptionTask(
                                 Len(enqueued) + 1, events, buffer, event.final)
                          /\ audio_events' = ClearedEvents(events)
                          /\ audio_buffer' = ClearedBuffer(buffer)
                          /\ chunks_in_buffer' = ClearedCount(count)
                          /\ srcPc' = "put"
                     ELSE /\ audio_events' = events
                          /\ audio_buffer' = buffer
                          /\ chunks_in_buffer' = count
                          /\ UNCHANGED <<srcPc, pendingTask>>
    /\ UNCHANGED <<outside, emitted, paramVars, queueVars, chunk_counter, shutdown_event,
                   workerVars, shutdownVars, enqueued, taskLog, shutdownHist>>

\* self.task_queue.put(task), the last statement of on_audio_chunk.
OnAudioChunkPut ==
    /\ srcPc = "put"
    /\ ~QueueFull(task_queue)
    /\ task_queue' = Append(task_queue, pendingTask)
    /\ unfinished_tasks' = unfinished_tasks + 1
    /\ enqueued' = Append(enqueued, pendingTask)
    /\ pendingTask' = NoneTask
    /\ srcPc' = "idle"
    /\ UNCHANGED <<outside, emitted, paramVars, bufferVars, chunk_counter, shutdown_event,
                   nextSeq, finalSent, workerVars, shutdownVars,
                   received, taskLog, shutdownHist>>

\* ------------------------------------------------------- _worker_loop
Log(t, field, value) == [taskLog EXCEPT ![t][field] = value]

\* A _transcribe_buffer without the test for an empty buffer.
PcAfterGetNoEmptyTest(item) ==
    IF IsSentinel(item) THEN "exited" ELSE "load_counter"

\* After task_queue.get(): the sentinel ends the loop; _transcribe_buffer
\* returns at once for an empty audio_buffer, else it increments the counter.
PcAfterGet(item) ==
    IF IsSentinel(item) THEN "exited"
    ELSE IF item.audio_buffer = <<>> THEN "mark_done"
    ELSE "load_counter"

\* A queue that hands out the item put last (queue.LifoQueue).
QueueGetIndexLifo(q) == Len(q)

\* queue.Queue.get() hands out the item that was put first.
QueueGetIndex(q) == 1

\* task = self.task_queue.get(); a sentinel is marked done and ends the loop.
WorkerGet(w) ==
    /\ wpc[w] = "get"
    /\ task_queue # <<>>
    /\ LET i == QueueGetIndex(task_queue)
           item == task_queue[i]
       IN /\ task_queue' = SubSeq(task_queue, 1, i - 1)
                             \o SubSeq(task_queue, i + 1, Len(task_queue))
          /\ wpc' = [wpc EXCEPT ![w] = PcAfterGet(item)]
          /\ IF IsSentinel(item)
             THEN /\ unfinished_tasks' = unfinished_tasks - 1
                  /\ UNCHANGED <<wtask, taskLog>>
             ELSE /\ wtask' = [wtask EXCEPT ![w] = item]
                  /\ taskLog' = Log(item.tid, "taken", taskLog[item.tid].taken + 1)
                  /\ UNCHANGED unfinished_tasks
    /\ UNCHANGED <<outside, emitted, paramVars, bufferVars, chunk_counter, shutdown_event,
                   sourceVars, wtmp, shutdownVars, received, enqueued,
                   shutdownHist>>

\* self.chunk_counter += 1 is a read followed by a write, with no lock.
WorkerLoadCounter(w) ==
    /\ wpc[w] = "load_counter"
    /\ wtmp' = [wtmp EXCEPT ![w] = chunk_counter]
    /\ wpc' = [wpc EXCEPT ![w] = "store_counter"]
    /\ UNCHANGED <<outside, emitted, paramVars, bufferVars, queueVars, chunk_counter,
                   shutdown_event, sourceVars, wtask, shutdownVars,
                   received, enqueued, taskLog, shutdownHist>>

WorkerStoreCounter(w) ==
    /\ wpc[w] = "store_counter"
    /\ chunk_counter' = wtmp[w] + 1
    /\ wtmp' = [wtmp EXCEPT ![w] = 0]
    /\ wpc' = [wpc EXCEPT ![w] = "compose"]
    /\ UNCHANGED <<outside, emitted, paramVars, bufferVars, queueVars, shutdown_event,
                   sourceVars, wtask, shutdownVars,
                   received, enqueued, taskLog, shutdownHist>>

\* suffix = f"{self.chunk_counter}-final" if is_final else str(self.chunk_counter)
Suffix(counter, is_final) ==
    IF is_final THEN ToString(counter) \o "-final" ELSE ToString(counter)

\* A chunk_id made of the name and the counter suffix alone.
ComposeChunkIdNoFrames(nm, first, last, counter, is_final) ==
    nm \o "." \o Suffix(counter, is_final)

\* chunk_id = f"{self.name}.{first_event.chunk_id}-{last_event.chunk_id}.{suffix}"
ComposeChunkId(nm, first, last, counter, is_final) ==
    nm \o "." \o first \o "-" \o last \o "." \o Suffix(counter, is_final)

\* The chunk_id is composed from a second read of self.chunk_counter, and
\* the backend call starts.
WorkerCompose(w) ==
    /\ wpc[w] = "compose"
    /\ LET task == wtask[w]
           first_event == task.audio_events[1]
           last_event == task.audio_events[Len(task.audio_events)]
           chunk_id == ComposeChunkId(name, first_event.chunk_id,
                           last_event.chunk_id, chunk_counter, task.is_final)
       IN taskLog' = [taskLog EXCEPT ![task.tid].chunk_id = chunk_id,
                                     ![task.tid].counter = chunk_counter]
    /\ wpc' = [wpc EXCEPT ![w] = "backend"]
    /\ UNCHANGED <<outside, emitted, paramVars, bufferVars, queueVars, chunk_counter,
                   shutdown_event, sourceVars, wtask, wtmp, shutdownVars,
                   received, enqueued, shutdownHist>>

\* What one run of _transcribe_buffer on a non-empty task does:
\* "result": the backend returns a result and result_callback returns;
\* "callback_raised": the backend returns a result, result_callback raises;
\* "no_result": the backend returns None; "backend_raised": it raises.
Outcomes == {"result", "callback_raised", "no_result", "backend_raised"}

\* if result: ... self.result_callback(result)
CallbackInvoked(outcome) == outcome \in {"result", "callback_raised"}

\* A worker loop without the except clause: a backend exception ends the
\* thread before task_done.
PcBackendExceptionEscapes(outcome) ==
    IF outcome = "backend_raised" THEN "exited" ELSE "mark_done"

\* A worker loop in which an exception of result_callback ends the thread.
PcCallbackExceptionEscapes(outcome) ==
    IF outcome = "callback_raised" THEN "exited" ELSE "mark_done"

\* try: run_until_complete(...) / except Exception: log / finally: task_done.
\* Whether or not _transcribe_buffer raised, the worker goes on to task_done.
PcAfterTranscribe(outcome) == "mark_done"

\* The backend call ends; a returned result is decorated and passed to
\* result_callback.
WorkerBackendReturn(w, outcome) ==
    /\ wpc[w] = "backend"
    /\ LET t == wtask[w].tid
       IN taskLog' = [taskLog EXCEPT
              ![t].outcome = outcome,
              ![t].callbacks = IF CallbackInvoked(outcome) THEN @ + 1 ELSE @]
    /\ emitted' = IF CallbackInvoked(outcome)
                  THEN Append(emitted, wtask[w].tid) ELSE emitted
    /\ wpc' = [wpc EXCEPT ![w] = PcAfterTranscribe(outcome)]
    /\ UNCHANGED <<outside, paramVars, bufferVars, queueVars, chunk_counter,
                   shutdown_event, sourceVars, wtask, wtmp, shutdownVars,
                   received, enqueued, shutdownHist>>

\* A worker that leaves its loop after one task.
PcOneTaskOnly == "exited"

\* while True: after task_done the loop goes back to task_queue.get().
PcAfterTaskDone == "get"

\* self.task_queue.task_done() in the finally clause, then the next get().
WorkerTaskDone(w) ==
    /\ wpc[w] = "mark_done"
    /\ unfinished_tasks' = unfinished_tasks - 1
    /\ taskLog' = Log(wtask[w].tid, "done", taskLog[wtask[w].tid].done + 1)
    /\ wtask' = [wtask EXCEPT ![w] = NoneTask]
    /\ wpc' = [wpc EXCEPT ![w] = PcAfterTaskDone]
    /\ UNCHANGED <<outside, emitted, paramVars, bufferVars, task_queue, chunk_counter,
                   shutdown_event, sourceVars, wtmp, shutdownVars,
                   received, enqueued, shutdownHist>>

Worker(w) ==
    \/ WorkerGet(w)
    \/ WorkerLoadCounter(w)
    \/ WorkerStoreCounter(w)
    \/ WorkerCompose(w)
    \/ \E outcome \in Outcomes : WorkerBackendReturn(w, outcome)
    \/ WorkerTaskDone(w)

\* ------------------------------------------------------------- shutdown
\* shutdown(timeout): set the event and start polling. polls is the number
\* of passes of the one-second polling loop that fit in timeout.
ShutdownCall(polls) ==
    /\ shPc = "idle"
    /\ shutdown_event' = TRUE
    /\ pollsLeft' = polls
    /\ tasksAtShutdown' = Len(enqueued)
    /\ shPc' = "poll"
    /\ UNCHANGED <<outside, emitted, paramVars, bufferVars, queueVars, chunk_counter,
                   sourceVars, workerVars, sentinelsPut, joinIdx,
                   shutdown_ret, received, enqueued, taskLog,
                   drained, joinTimedOut>>

\* while time.time() - start_time < timeout: break when the queue is empty
\* with no unfinished task, else sleep(1); the else branch is the timeout.
QueueDrained == task_queue = <<>> /\ unfinished_tasks = 0

ShutdownPoll ==
    /\ shPc = "poll"
    /\ IF pollsLeft = 0
       THEN /\ drained' = FALSE
            /\ shPc' = "sentinels"
            /\ UNCHANGED pollsLeft
       ELSE IF QueueDrained
       THEN /\ drained' = TRUE
            /\ shPc' = "sentinels"
            /\ pollsLeft' = 0
       ELSE /\ pollsLeft' = pollsLeft - 1
            /\ UNCHANGED <<drained, shPc>>
    /\ UNCHANGED <<outside, emitted, paramVars, bufferVars, queueVars, chunk_counter,
                   shutdown_event, sourceVars, workerVars, sentinelsPut,
                   joinIdx, shutdown_ret, received, enqueued, taskLog,
                   joinTimedOut, tasksAtShutdown>>

\* for _ in self.worker_threads: self.task_queue.put(None)
ShutdownPutSentinel ==
    /\ shPc = "sentinels"
    /\ ~QueueFull(task_queue)
    /\ task_queue' = Append(task_queue, NoneTask)
    /\ unfinished_tasks' = unfinished_tasks + 1
    /\ sentinelsPut' = sentinelsPut + 1
    /\ IF sentinelsPut + 1 = max_concurrent_threads
       THEN shPc' = "join" /\ joinIdx' = 1
       ELSE UNCHANGED <<shPc, joinIdx>>
    /\ UNCHANGED <<outside, emitted, paramVars, bufferVars, chunk_counter, shutdown_event,
                   sourceVars, workerVars, pollsLeft, shutdown_ret,
                   received, enqueued, taskLog, shutdownHist>>

\* return True, the only return statement of shutdown().
ShutdownResult(queueDrained, allJoined) == TRUE

\* thread.join(2.0) returns when the thread has exited or after 2 s; after
\* the last join shutdown() returns.
ShutdownJoin(timedOut) ==
    /\ shPc = "join"
    /\ timedOut = (wpc[joinIdx] # "exited")
    /\ joinTimedOut' = (joinTimedOut \/ timedOut)
    /\ IF joinIdx = max_concurrent_threads
       THEN /\ shPc' = "returned"
            /\ shutdown_ret' = ShutdownResult(drained, ~joinTimedOut')
            /\ UNCHANGED joinIdx
       ELSE /\ joinIdx' = joinIdx + 1
            /\ UNCHANGED <<shPc, shutdown_ret>>
    /\ UNCHANGED <<outside, emitted, paramVars, bufferVars, queueVars, chunk_counter,
                   shutdown_event, sourceVars, workerVars, pollsLeft,
                   sentinelsPut, received, enqueued, taskLog,
                   drained, tasksAtShutdown>>

Shutdown ==
    \/ ShutdownPoll
    \/ ShutdownPutSentinel
    \/ \E timedOut \in BOOLEAN : ShutdownJoin(timedOut)

\* --------------------------------------------------------- specification
Next ==
    \/ \E nonEmpty \in BOOLEAN, final \in BOOLEAN : OnAudioChunk(nonEmpty, final)
    \/ OnAudioChunkPut
    \/ \E w \in Workers : Worker(w)
    \/ \E polls \in 0..MaxPolls : ShutdownCall(polls)
    \/ Shutdown

Spec == Init /\ [][Next]_vars

\* Threads are scheduled fairly and backend calls return: every thread that
\* can take a step eventually takes one. The source and the caller of
\* shutdown() are free to stay idle.
FairSpec ==
    /\ Init /\ [][Next]_vars
    /\ \A w \in Workers : WF_vars(Worker(w))
    /\ WF_vars(OnAudioChunkPut)
    /\ WF_vars(Shutdown)

\* ------------------------------------------------------------ observations
RECURSIVE ConcatData(_)
\* b"".join(e.audio_data for e in events)
ConcatData(events) ==
    IF events = <<>> THEN <<>>
    ELSE Head(events).audio_data \o ConcatData(Tail(events))

RECURSIVE ConcatBuffers(_)
\* b"".join(t.audio_buffer for t in tasks)
ConcatBuffers(tasks) ==
    IF tasks = <<>> THEN <<>>
    ELSE Head(tasks).audio_buffer \o ConcatBuffers(Tail(tasks))

\* Frames and non-empty frames that on_audio_chunk has taken in (a frame that
\* arrives after shutdown() has set shutdown_event is dropped at the guard).
NonEmptyReceived ==
    Cardinality({i \in 1..Len(received) : Len(received[i].audio_data) > 0})
FinalReceived == \E i \in 1..Len(received) : received[i].final

\* Tasks handed to task_queue.put, the one being put included.
TasksPut == Len(enqueued) + (IF srcPc = "put" THEN 1 ELSE 0)

IsTask(item) == ~IsSentinel(item)
TasksWaiting == SelectSeq(task_queue, IsTask)
SentinelsWaiting == Len(task_queue) - Len(TasksWaiting)
TasksTaken == Cardinality({t \in TaskIds : taskLog[t].taken > 0})
PoolWorkers == 1..max_concurrent_threads
ExitedWorkers == {w \in PoolWorkers : wpc[w] = "exited"}
Composed == {t \in TaskIds : taskLog[t].chunk_id # ""}

\* ------------------------------------------------------------------ C1
\* C1: with trigger_chunks = k, after N non-empty frames and no final frame
\* floor(N/k) tasks have been put on task_queue, and ceil(N/k) once the final
\* frame has been received; a task that was never put yields no result.
C1_TriggerCount ==
    LET N == NonEmptyReceived
        k == trigger_chunks
    IN /\ TasksPut = IF FinalReceived THEN (N + k - 1) \div k ELSE N \div k
       /\ \A t \in TaskIds : t > Len(enqueued) => taskLog[t].callbacks = 0

\* One non-empty frame, then the final frame, with trigger_chunks = 2: the
\* trailing task is the only one.
C1_Witness ==
    /\ srcPc = "idle"
    /\ trigger_chunks = 2
    /\ FinalReceived
    /\ NonEmptyReceived = 1
    /\ Len(enqueued) = 1

\* ------------------------------------------------------------------ C2
\* C2: the tasks' audio_buffers, concatenated in enqueue order and followed by
\* what is being put and what is still buffered, are the received bytes in
\* arrival order; once the final frame is handled the dispatched bytes are
\* all received bytes; each task's audio_buffer is the concatenation of its
\* own audio_events' audio_data.
C2_ByteCoverage ==
    /\ ConcatBuffers(enqueued)
         \o (IF srcPc = "put" THEN pendingTask.audio_buffer ELSE <<>>)
         \o audio_buffer
       = ConcatData(received)
    /\ (srcPc = "idle" /\ FinalReceived)
         => ConcatBuffers(enqueued) = ConcatData(received)
    /\ \A i \in 1..Len(enqueued) :
         enqueued[i].audio_buffer = ConcatData(enqueued[i].audio_events)
    /\ audio_buffer = ConcatData(audio_events)

\* Two tasks of one frame each have been put, the second on the final frame.
C2_Witness ==
    /\ Len(enqueued) = 2
    /\ FinalReceived
    /\ ConcatBuffers(enqueued) = <<1, 2>>

\* ------------------------------------------------------------------ C3
\* C3: when shutdown() has returned True, every task put on task_queue before
\* the call has been taken by a worker and processed to task_done, with
\* result_callback invoked once for each whose backend call returned a result.
C3_ShutdownCompleteness ==
    (shPc = "returned" /\ shutdown_ret) =>
        \A t \in 1..tasksAtShutdown :
            /\ taskLog[t].taken = 1
            /\ taskLog[t].done = 1
            /\ CallbackInvoked(taskLog[t].outcome) => taskLog[t].callbacks = 1

\* ------------------------------------------------------------------ C4
\* C4: shutdown() returns True if and only if the queue drained within the
\* timeout and every worker's join found the thread terminated.
C4_ShutdownReturnValue ==
    shPc = "returned" => (shutdown_ret <=> (drained /\ ~joinTimedOut))

C6_AllTasksProcessed ==
    /\ \A t \in TaskIds :
         (Len(enqueued) >= t /\ sentinelsPut = 0)
           ~> (taskLog[t].taken = 1 /\ taskLog[t].done = 1)
    /\ [](\A t \in TaskIds :
            /\ taskLog[t].taken <= 1
            /\ taskLog[t].done <= taskLog[t].taken
            /\ Cardinality({w \in Workers : wtask[w].tid = t}) <= 1)

\* A pool of one worker has processed two tasks.
C6_Witness ==
    /\ max_concurrent_threads = 1
    /\ Len(enqueued) = 2
    /\ \A t \in 1..2 : taskLog[t].taken = 1 /\ taskLog[t].done = 1

\* ------------------------------------------------------------------ C7
\* C7: a backend call that raises yields no result_callback invocation (so a
\* backend that raises on every call yields zero results); no worker thread
\* ends but by taking a sentinel; a failed task is taken once, marked done
\* once and never retried; its worker goes back to task_queue.get(); and
\* shutdown() returns with every worker exited.
C7_BackendRaises ==
    /\ [](\A t \in TaskIds :
            taskLog[t].outcome \in {"pending", "backend_raised"} =>
                /\ taskLog[t].callbacks = 0
                /\ taskLog[t].taken <= 1
                /\ taskLog[t].done <= 1)
    /\ [](Cardinality(ExitedWorkers) = sentinelsPut - SentinelsWaiting)
    /\ \A t \in TaskIds :
         (taskLog[t].outcome = "backend_raised") ~> (taskLog[t].done = 1)
    /\ \A w \in Workers :
         (wpc[w] = "mark_done" /\ taskLog[wtask[w].tid].outcome = "backend_raised")
           ~> (wpc[w] = "get")
    /\ (shPc # "idle") ~> (shPc = "returned" /\ ExitedWorkers = PoolWorkers)

\* Both backend calls raised: no result, both tasks done by the one worker,
\* shutdown returned and the worker has exited.
C7_Witness ==
    /\ max_concurrent_threads = 1
    /\ \A t \in 1..2 :
         /\ taskLog[t].outcome = "backend_raised"
         /\ taskLog[t].done = 1
         /\ taskLog[t].callbacks = 0
    /\ shPc = "returned"
    /\ wpc[1] = "exited"

\* ------------------------------------------------------------------ C8
\* C8: an exception raised by result_callback does not end the worker: the
\* worker marks the task done and is back at task_queue.get(), and a worker
\* thread never ends while it holds a task.
C8_CallbackRaises ==
    /\ \A w \in Workers :
         (wpc[w] = "mark_done" /\ taskLog[wtask[w].tid].outcome = "callback_raised")
           ~> (wpc[w] = "get" /\ wtask[w] = NoneTask)
    /\ \A t \in TaskIds :
         (taskLog[t].outcome = "callback_raised") ~> (taskLog[t].done = 1)
    /\ [](\A w \in Workers : wpc[w] = "exited" => wtask[w] = NoneTask)

\* The callback raised on the first task; the one worker marked it done and
\* has taken the second task.
C8_Witness ==
    /\ max_concurrent_threads = 1
    /\ taskLog[1].outcome = "callback_raised"
    /\ taskLog[1].done = 1
    /\ taskLog[2].taken = 1

\* ------------------------------------------------------------------ C9
\* C9: the chunk_id strings composed for the tasks of one consumer are
\* pairwise distinct, for any number of workers and any interleaving.
C9_ChunkIdsDistinct ==
    \A t1, t2 \in Composed :
        t1 # t2 => taskLog[t1].chunk_id # taskLog[t2].chunk_id

\* Two workers raced on chunk_counter: both chunk_ids carry the same counter
\* value and differ in their frame ids.
C9_Witness ==
    /\ Composed = {1, 2}
    /\ taskLog[1].counter = taskLog[2].counter
    /\ taskLog[1].chunk_id # taskLog[2].chunk_id

\* ------------------------------------------------------------------ C10
\* C10: when no worker is inside _transcribe_buffer, the counter values in
\* the chunk_id suffixes of the n processed tasks are exactly 1..n, each used
\* once.
C10_CounterExact ==
    (\A w \in PoolWorkers : wpc[w] \in {"get", "exited"}) =>
        /\ {taskLog[t].counter : t \in Composed} = 1..Cardinality(Composed)
        /\ \A t1, t2 \in Composed :
               t1 # t2 => taskLog[t1].counter # taskLog[t2].counter

\* ------------------------------------------------------------------ C11
\* C11: tasks are put on task_queue in flush order (task i holds earlier
\* frames than task j for i < j), they are taken in that order, and with
\* max_concurrent_threads = 1 result_callback is invoked in flush order, the
\* is_final result being the last one emitted. (With two workers TLC reaches
\* emitted = <<2, 1>>: the completion order is free.)
C11_FifoOrder ==
    /\ \A i \in 1..Len(enqueued) : enqueued[i].tid = i
    /\ \A i, j \in 1..Len(enqueued) :
         i < j => \A a \in 1..Len(enqueued[i].audio_events),
                     b \in 1..Len(enqueued[j].audio_events) :
                    enqueued[i].audio_events[a].sequence_number
                      < enqueued[j].audio_events[b].sequence_number
    /\ \A t \in TaskIds :
         taskLog[t].taken > 0 => \A u \in 1..(t - 1) : taskLog[u].taken > 0
    /\ max_concurrent_threads = 1 =>
         /\ \A i, j \in 1..Len(emitted) : i < j => emitted[i] < emitted[j]
         /\ \A i \in 1..Len(emitted) :
              enqueued[emitted[i]].is_final => i = Len(emitted)

\* One worker has emitted the results of both tasks, the final one last.
C11_Witness ==
    /\ max_concurrent_threads = 1
    /\ emitted = <<1, 2>>
    /\ enqueued[2].is_final

\* ====================================================================
\* ServiceSpec: the event bus with the two consumers of TranscriptionService
\* (src/listen2me/services/transcription_service.py, audio/audio_pub.py,
\* transcription/publisher.py). pub.sendMessage calls the listeners of a
\* topic one after the other in the thread of the sender, in the order they
\* subscribed; no listener exception handler is installed
\* (pub.setListenerExcHandler is never called), so an exception raised by a
\* listener leaves sendMessage at once.
\* ====================================================================
\* Number of frames the audio source publishes at most.
MaxBusFrames == 4

\* name="realtime" and name="batch", in the order they subscribe.
ConsumerNames == <<"realtime", "batch">>
ConsumerSet == {ConsumerNames[i] : i \in 1..Len(ConsumerNames)}

\* AudioPublisher("audio.frame") / TranscriptionService(config, "audio.frame")
AudioTopic == "audio.frame"
\* TranscriptionPublisher("transcription.realtime"), ("transcription.batch")
ResultTopic(c) == "transcription." \o c
Topics == {AudioTopic} \cup {ResultTopic(c) : c \in ConsumerSet}

\* A listener: a bound method of one object.
Listener(kind, of) == [kind |-> kind, of |-> of]
OnAudioChunkOf(c) == Listener("on_audio_chunk", c)
DebugAggregatorOf(c) == Listener("debug._on_result", c)
CleanupAggregatorOf(c) == Listener("cleanup._on_result", c)

AllListeners ==
    UNION {{OnAudioChunkOf(c), DebugAggregatorOf(c), CleanupAggregatorOf(c)} :
             c \in ConsumerSet}

\* A service that subscribes the realtime consumer alone.
SubscriptionsBatchMissing(withCleanup) ==
    [t \in Topics |->
        IF t = AudioTopic THEN <<OnAudioChunkOf(ConsumerNames[1])>>
        ELSE <<DebugAggregatorOf(CHOOSE d \in ConsumerSet : ResultTopic(d) = t)>>]

\* pub.subscribe calls: the consumers on the audio topic, one
\* DebugTranscriptionAggregator per result topic and, when one is
\* constructed, a CleanupAggregator behind it.
Subscriptions(withCleanup) ==
    [t \in Topics |->
        IF t = AudioTopic
        THEN <<OnAudioChunkOf(ConsumerNames[1]), OnAudioChunkOf(ConsumerNames[2])>>
        ELSE LET c == CHOOSE d \in ConsumerSet : ResultTopic(d) = t
             IN IF withCleanup
                THEN <<DebugAggregatorOf(c), CleanupAggregatorOf(c)>>
                ELSE <<DebugAggregatorOf(c)>>]

\* Threads that publish: the audio source and the worker pool of each
\* consumer (one worker of each pool is modelled).
BusThreads == {"source"} \cup ConsumerSet
NoSend == [topic |-> "", msg |-> [chunk_id |-> ""], todo |-> <<>>]

\* TranscriptionAudioConsumer.__init__ for one of the two consumers.
NewConsumer(trigger) ==
    [trigger_chunks |-> trigger, audio_events |-> <<>>, audio_buffer |-> <<>>,
     chunks_in_buffer |-> 0, task_queue |-> <<>>, chunk_counter |-> 0,
     dispatched |-> 0]

\* The consumer objects stay as constructed in the specifications that do
\* not run them.
ConsumerParked ==
    /\ ConsumerInit
    /\ trigger_chunks = 1
    /\ max_concurrent_threads = 1

ServiceInit ==
    /\ ConsumerParked
    /\ \E rt \in 1..MaxTrigger, bt \in 1..MaxTrigger :
         consumers = [c \in ConsumerSet |->
                        NewConsumer(IF c = "realtime" THEN rt ELSE bt)]
    /\ \E withCleanup \in BOOLEAN :
         bus = [listeners |-> Subscriptions(withCleanup),
                sending |-> [th \in BusThreads |-> NoSend],
                published |-> [t \in Topics |-> <<>>],
                calls |-> [l \in AllListeners |-> <<>>],
                escaped |-> [t \in Topics |-> <<>>],
                final_sent |-> FALSE]
    /\ cleanup = NotBuilt
    /\ aggregator = NotBuilt
    /\ backend = NotBuilt
    /\ capture = NotBuilt
    /\ BesideNotBuilt

\* Every action of ServiceSpec leaves these alone.
outsideService == <<consumerVars, cleanup, aggregator, backend, capture, beside>>

\* should_transcribe_target or should_transcribe_final, for a consumer whose
\* trigger_chunks is trigger.
ShouldTranscribeAt(trigger, count, final) ==
    \/ count >= trigger
    \/ (final /\ count > 0)

\* on_audio_chunk of one consumer object: accumulate the frame, and on a
\* flush put a task made of the accumulated frames on its own task_queue and
\* clear its own accumulators.
HandleAudioChunk(cons, event) ==
    LET events == Append(cons.audio_events, event)
        buffer == cons.audio_buffer \o event.audio_data
        count == IF Len(event.audio_data) > 0
                 THEN cons.chunks_in_buffer + 1 ELSE cons.chunks_in_buffer
    IN IF ShouldTranscribeAt(cons.trigger_chunks, count, event.final)
       THEN [cons EXCEPT
               !.audio_events = ClearedEvents(events),
               !.audio_buffer = ClearedBuffer(buffer),
               !.chunks_in_buffer = ClearedCount(count),
               !.task_queue = Append(@, TranscriptionTask(
                                  cons.dispatched + 1, events, buffer, event.final)),
               !.dispatched = @ + 1]
       ELSE [cons EXCEPT !.audio_events = events, !.audio_buffer = buffer,
                         !.chunks_in_buffer = count]

\* pub.sendMessage(topic, ...) begins: the listeners of the topic are to be
\* called in subscription order.
SendMessage(th, topic, msg) ==
    [bus EXCEPT !.sending[th] = [topic |-> topic, msg |-> msg,
                                 todo |-> bus.listeners[topic]],
                !.published[topic] = Append(@, msg)]

AudioPublished == bus.published[AudioTopic]

\* AudioPublisher.publish_audio_event, called by the audio source for each
\* frame it captures; the source publishes nothing after its final frame.
PublishAudioEvent(nonEmpty, final) ==
    /\ bus.sending["source"] = NoSend
    /\ Len(AudioPublished) < MaxBusFrames
    /\ ~bus.final_sent
    /\ bus' = [SendMessage("source", AudioTopic,
                   AudioEvent(Len(AudioPublished) + 1, nonEmpty, final))
                 EXCEPT !.final_sent = final]
    /\ UNCHANGED <<consumers, outsideService>>

\* Which handlers can raise: DebugTranscriptionAggregator._on_result prints
\* (print_transcription_summary) and slices result.text; on_audio_chunk and
\* CleanupAggregator._on_result have no raising statement outside a try.
CanRaise(l) == l.kind = "debug._on_result"

\* A bus that catches and logs the exception of a listener.
TodoAfterCallContained(rest, raised) == rest
\* sendMessage with no listener exception handler: the exception of a
\* listener is re-raised, the listeners behind it are not called.
TodoAfterCall(rest, raised) == IF raised THEN <<>> ELSE rest

\* One listener call inside pub.sendMessage, in the thread of the sender.
CallListener(th, raised) ==
    /\ bus.sending[th] # NoSend
    /\ LET send == bus.sending[th]
           l == Head(send.todo)
           rest == TodoAfterCall(Tail(send.todo), raised)
       IN /\ raised => CanRaise(l)
          /\ consumers' = IF l.kind = "on_audio_chunk"
                          THEN [consumers EXCEPT
                                  ![l.of] = HandleAudioChunk(@, send.msg)]
                          ELSE consumers
          /\ bus' = [bus EXCEPT
                !.calls[l] = Append(@, [msg |-> send.msg, thread |-> th,
                                        raised |-> raised]),
                !.escaped[send.topic] = IF raised THEN Append(@, send.msg) ELSE @,
                !.sending[th] = IF rest = <<>> THEN NoSend
                                ELSE [send EXCEPT !.todo = rest]]
    /\ UNCHANGED outsideService

\* What a backend hands back: TranscriptionResult with its defaults
\* (transcription_mode "realtime", is_final True) and the backend's own id.
BackendResult ==
    [chunk_id |-> "google", transcription_mode |-> "realtime", is_final |-> TRUE]

\* A consumer that leaves transcription_mode at the default of the dataclass.
TranscribeWithBackendNoMode(nm, chunk_id, result) ==
    [result EXCEPT !.chunk_id = chunk_id]

\* _transcribe_with_backend: result.chunk_id = chunk_id;
\* result.transcription_mode = self.name.
TranscribeWithBackend(nm, chunk_id, result) ==
    [result EXCEPT !.chunk_id = chunk_id, !.transcription_mode = nm]

\* A worker that leaves is_final as the backend set it.
DecorateIsFinalKept(result, task) == result

\* result.is_final = is_final, the is_final of the task.
DecorateIsFinal(result, task) == [result EXCEPT !.is_final = task.is_final]

\* A worker of consumer c takes a task and runs _transcribe_buffer on it;
\* with a result it calls result_callback, which is
\* TranscriptionPublisher.publish_transcription_result.
WorkerTranscribe(c, outcome) ==
    /\ bus.sending[c] = NoSend
    /\ consumers[c].task_queue # <<>>
    /\ LET task == Head(consumers[c].task_queue)
           counter == consumers[c].chunk_counter + 1
           first_event == task.audio_events[1]
           last_event == task.audio_events[Len(task.audio_events)]
           chunk_id == ComposeChunkId(c, first_event.chunk_id,
                           last_event.chunk_id, counter, task.is_final)
           result == DecorateIsFinal(
                         TranscribeWithBackend(c, chunk_id, BackendResult), task)
       IN /\ consumers' = [consumers EXCEPT
                ![c].task_queue = Tail(@),
                ![c].chunk_counter = IF task.audio_buffer = <<>> THEN @ ELSE counter]
          /\ bus' = IF outcome = "result" /\ task.audio_buffer # <<>>
                    THEN SendMessage(c, ResultTopic(c), result)
                    ELSE bus
    /\ UNCHANGED outsideService

ServiceNext ==
    \/ \E nonEmpty \in BOOLEAN, final \in BOOLEAN : PublishAudioEvent(nonEmpty, final)
    \/ \E th \in BusThreads, raised \in BOOLEAN : CallListener(th, raised)
    \/ \E c \in ConsumerSet, outcome \in {"result", "no_result"} :
          WorkerTranscribe(c, outcome)

ServiceSpec == ServiceInit /\ [][ServiceNext]_vars

\* ------------------------------------------------- ServiceSpec observations
\* The frames handed to on_audio_chunk of consumer c so far.
FramesOf(c) ==
    [i \in 1..Len(bus.calls[OnAudioChunkOf(c)]) |->
        bus.calls[OnAudioChunkOf(c)][i].msg]
NonEmptyOf(c) ==
    Cardinality({i \in 1..Len(FramesOf(c)) : Len(FramesOf(c)[i].audio_data) > 0})
FinalOf(c) == \E i \in 1..Len(FramesOf(c)) : FramesOf(c)[i].final
Accumulators(cons) ==
    <<cons.audio_events, cons.audio_buffer, cons.chunks_in_buffer>>

\* ------------------------------------------------------------------ C12
\* C12: of two consumers fed the same frames, each has dispatched floor(N/k)
\* tasks (ceil(N/k) once it has seen the final frame) for its own
\* trigger_chunks k and the N non-empty frames it has received; every result
\* published on a consumer's topic carries that consumer's name as
\* transcription_mode; and a step in which one consumer flushes leaves the
\* accumulators of the other unchanged.
C12_IndependentConsumers ==
    /\ [](\A c \in ConsumerSet :
            LET N == NonEmptyOf(c)
                k == consumers[c].trigger_chunks
            IN /\ consumers[c].dispatched =
                    IF FinalOf(c) THEN (N + k - 1) \div k ELSE N \div k
               /\ \A i \in 1..Len(bus.published[ResultTopic(c)]) :
                    bus.published[ResultTopic(c)][i].transcription_mode = c)
    /\ [][\A c, d \in ConsumerSet :
            (c # d /\ consumers[c].dispatched' # consumers[c].dispatched)
              => Accumulators(consumers[d])' = Accumulators(consumers[d])]_vars

\* Three non-empty frames, the last one final, with trigger_chunks 1 and 2:
\* three realtime tasks, two batch tasks, and a result of each mode.
C12_Witness ==
    /\ consumers["realtime"].trigger_chunks = 1
    /\ consumers["batch"].trigger_chunks = 2
    /\ NonEmptyOf("batch") = 3
    /\ consumers["realtime"].dispatched = 3
    /\ consumers["batch"].dispatched = 2
    /\ bus.published[ResultTopic("realtime")] # <<>>
    /\ bus.published[ResultTopic("batch")] # <<>>

\* ====================================================================
\* AggregatorSpec: DebugTranscriptionAggregator
\* (src/listen2me/transcription/aggregator.py). _on_result runs in the
\* worker thread that published the result: the part under self.lock is one
\* step, each print_transcription_summary after it another; shutdown()
\* unsubscribes and prints once.
\* ====================================================================
\* audio_start_time and audio_end_time are whole seconds in 0..MaxTime.
MaxTime == 10
\* Number of results the aggregator receives at most.
MaxResults == 2
\* Worker threads that may be inside _on_result.
MaxHandlers == 2

\* self.print_interval_seconds: float = 5.0
print_interval_seconds == 5

\* Optional[float] = None: the value of a time that is not set yet.
None == -1
AggThreads == 1..MaxHandlers

\* A decorated TranscriptionResult as the aggregator reads it.
Result(text, start, end) ==
    [text |-> text, audio_start_time |-> start, audio_end_time |-> end]

\* DebugTranscriptionAggregator.__init__; lock is the thread that holds
\* self.lock, 0 when it is free.
NewAggregator ==
    [results |-> <<>>, coverage_start_time |-> None, latest_end_time |-> None,
     next_print_threshold_seconds |-> print_interval_seconds,
     subscribed |-> TRUE, shutdown_event |-> FALSE, lock |-> 0,
     prints_to_do |-> [th \in AggThreads |-> 0],
     periodic_prints |-> 0, shutdown_prints |-> 0, summary_count |-> None]

outsideAggregator == <<consumerVars, cleanup, consumers, bus, backend, capture, beside>>

AggregatorInit ==
    /\ ConsumerParked
    /\ aggregator = NewAggregator
    /\ cleanup = NotBuilt
    /\ consumers = NotBuilt
    /\ bus = NotBuilt
    /\ backend = NotBuilt
    /\ capture = NotBuilt
    /\ BesideNotBuilt

\* if self.coverage_start_time is None:
\*     self.coverage_start_time = result.audio_start_time
CoverageStart(current, start) == IF current = None THEN start ELSE current

\* if self.latest_end_time is None or result.audio_end_time > self.latest_end_time
LatestEnd(current, end) == IF current = None \/ end > current THEN end ELSE current

\* An 'if' in place of the 'while': one print at most for one result.
PrintsDueOnce(covered, threshold) == IF covered >= threshold THEN 1 ELSE 0

RECURSIVE PrintsDue(_, _)
\* while covered >= self.next_print_threshold_seconds: prints_to_do += 1;
\* self.next_print_threshold_seconds += self.print_interval_seconds
PrintsDue(covered, threshold) ==
    IF covered >= threshold
    THEN 1 + PrintsDue(covered, threshold + print_interval_seconds)
    ELSE 0

\* if result.audio_start_time is not None and result.audio_end_time is not None
HasTimes(result) ==
    result.audio_start_time # None /\ result.audio_end_time # None

\* _on_result in worker thread th: 'with self.lock:' is entered and its body
\* runs; the thread holds the lock until OnResultRelease.
OnResult(th, result) ==
    /\ aggregator.subscribed
    /\ aggregator.lock = 0
    /\ aggregator.prints_to_do[th] = 0
    /\ Len(aggregator.results) < MaxResults
    /\ LET start == IF HasTimes(result)
                    THEN CoverageStart(aggregator.coverage_start_time,
                                       result.audio_start_time)
                    ELSE aggregator.coverage_start_time
           end == IF HasTimes(result)
                  THEN LatestEnd(aggregator.latest_end_time,
                                 result.audio_end_time)
                  ELSE aggregator.latest_end_time
           covered == end - start
           due == IF HasTimes(result)
                  THEN PrintsDue(covered, aggregator.next_print_threshold_seconds)
                  ELSE 0
       IN aggregator' = [aggregator EXCEPT
              !.results = Append(@, result),
              !.coverage_start_time = start,
              !.latest_end_time = end,
              !.next_print_threshold_seconds = @ + due * print_interval_seconds,
              !.prints_to_do[th] = due,
              !.lock = th]
    /\ UNCHANGED outsideAggregator

\* The end of the with block: the lock is released.
OnResultRelease(th) ==
    /\ aggregator.lock = th
    /\ aggregator' = [aggregator EXCEPT !.lock = 0]
    /\ UNCHANGED outsideAggregator

\* An _on_result that prints inside the with block.
CanPrintUnderLock(th) == aggregator.lock = th

\* The prints come after the with block; print_transcription_summary takes
\* the lock itself, in get_results_summary, for the copy of the results.
CanPrint(th) == aggregator.lock = 0

\* for _ in range(prints_to_do): self.print_transcription_summary()
OnResultPrint(th) ==
    /\ aggregator.prints_to_do[th] > 0
    /\ CanPrint(th)
    /\ aggregator' = [aggregator EXCEPT !.prints_to_do[th] = @ - 1,
                                        !.periodic_prints = @ + 1]
    /\ UNCHANGED outsideAggregator

\* shutdown(): self.shutdown_event.set(); pub.unsubscribe(...)
AggregatorUnsubscribe ==
    /\ ~aggregator.shutdown_event
    /\ aggregator' = [aggregator EXCEPT !.shutdown_event = TRUE,
                                        !.subscribed = FALSE]
    /\ UNCHANGED outsideAggregator

\* shutdown(): self.print_transcription_summary(); return True
AggregatorShutdownPrint ==
    /\ aggregator.shutdown_event
    /\ aggregator.shutdown_prints = 0
    /\ aggregator.lock = 0
    /\ aggregator' = [aggregator EXCEPT
          !.shutdown_prints = @ + 1,
          !.summary_count = Len(aggregator.results)]
    /\ UNCHANGED outsideAggregator

\* The results a consumer publishes: audio_start_time is the timestamp of the
\* first frame of the task, audio_end_time the end of its last frame. The
\* tasks of a consumer hold disjoint runs of frames, so the windows of its
\* results do not overlap; the workers may publish them in any order.
\* A result that was not decorated lacks one of the times or both.
ResultInputs ==
    {r \in {Result("text", start, end) : start \in 0..MaxTime, end \in 0..MaxTime} :
        r.audio_start_time < r.audio_end_time}
    \cup {Result("text", None, None), Result("text", 0, None),
          Result("text", None, MaxTime)}
Disjoint(r, results) ==
    \A i \in 1..Len(results) :
        \/ ~HasTimes(r)
        \/ ~HasTimes(results[i])
        \/ r.audio_end_time <= results[i].audio_start_time
        \/ results[i].audio_end_time <= r.audio_start_time

\* TranscriptionPublisher.publish_transcription_result in worker thread th:
\* pub.sendMessage calls _on_result.
PublishTranscriptionResult(th, result) ==
    /\ Disjoint(result, aggregator.results)
    /\ OnResult(th, result)

AggregatorNext ==
    \/ \E th \in AggThreads, result \in ResultInputs :
          PublishTranscriptionResult(th, result)
    \/ \E th \in AggThreads : OnResultRelease(th)
    \/ \E th \in AggThreads : OnResultPrint(th)
    \/ AggregatorUnsubscribe
    \/ AggregatorShutdownPrint

AggregatorSpec == AggregatorInit /\ [][AggregatorNext]_vars

\* ---------------------------------------------- AggregatorSpec observations
\* Covered audio: the largest audio_end_time minus the smallest
\* audio_start_time over all results received.
TimedResults(results) == SelectSeq(results, HasTimes)
SmallestStart(results) ==
    CHOOSE t \in 0..MaxTime :
        /\ \E i \in 1..Len(results) : results[i].audio_start_time = t
        /\ \A i \in 1..Len(results) : results[i].audio_start_time >= t
LargestEnd(results) ==
    CHOOSE t \in 0..MaxTime :
        /\ \E i \in 1..Len(results) : results[i].audio_end_time = t
        /\ \A i \in 1..Len(results) : results[i].audio_end_time <= t
CoveredAudio(all) ==
    LET results == TimedResults(all)
    IN IF results = <<>> THEN 0
       ELSE LargestEnd(results) - SmallestStart(results)
NoHandlerPrinting == \A th \in AggThreads : aggregator.prints_to_do[th] = 0

\* ------------------------------------------------------------------ C13
\* C13: whenever no handler is between its locked part and its prints, the
\* number of periodic prints is floor(C / print_interval_seconds) for the
\* covered audio C of the results received, in whatever order they arrived;
\* and shutdown has printed exactly once when it is over.
C13_PeriodicPrints ==
    /\ NoHandlerPrinting =>
         aggregator.periodic_prints
           = CoveredAudio(aggregator.results) \div print_interval_seconds
    /\ aggregator.summary_count # None => aggregator.shutdown_prints = 1

\* ------------------------------------------------------------------ C14
\* C14: each consumer's on_audio_chunk is called once with every frame
\* published on the audio topic, in the thread of the publisher and before
\* sendMessage returns, and in publish order (sequence_number order).
C14_DeliveryOnceInOrder ==
    /\ \A i \in 1..Len(AudioPublished) : AudioPublished[i].sequence_number = i
    /\ \A c \in ConsumerSet :
         LET got == FramesOf(c)
         IN /\ Len(got) <= Len(AudioPublished)
            /\ got = SubSeq(AudioPublished, 1, Len(got))
            /\ Len(AudioPublished) - Len(got) <= 1
            /\ bus.sending["source"] = NoSend => got = AudioPublished
            /\ \A i \in 1..Len(got) :
                 bus.calls[OnAudioChunkOf(c)][i].thread = "source"

\* Three frames have been published and both consumers have handled them.
C14_Witness ==
    /\ Len(AudioPublished) = 3
    /\ bus.sending["source"] = NoSend
    /\ \A c \in ConsumerSet : Len(FramesOf(c)) = 3

\* ------------------------------------------------------------------ C15
\* C15: an exception of one listener is contained: it never reaches the
\* publisher, and once sendMessage is over for a message every listener of
\* its topic has been called with it.
C15_HandlerExceptionContained ==
    \A t \in Topics :
        /\ bus.escaped[t] = <<>>
        /\ \A i \in 1..Len(bus.published[t]) :
             (\A th \in BusThreads : bus.sending[th].msg # bus.published[t][i])
               => \A k \in 1..Len(bus.listeners[t]) :
                    \E j \in 1..Len(bus.calls[bus.listeners[t][k]]) :
                        bus.calls[bus.listeners[t][k]][j].msg = bus.published[t][i]

\* ======================================================================
\* Server.cleanup: the audio capture is stopped, shutdown_transcription
\* shuts the realtime consumer and then the batch consumer down, and the two
\* aggregators are shut down last. The realtime consumer is the consumer of
\* Spec, with its aggregator as result_callback; the batch consumer, an
\* instance of the same class, is followed through its shutdown call only.
\* cleanup.pc is the position of the thread running Server.cleanup;
\* subscribed tells whether the consumers' on_audio_chunk handlers are
\* subscribed to the audio topic, backend_client whether the backend holds
\* its client.
NewCleanup ==
    [pc |-> "running", summary_count |-> None, subscribed |-> TRUE,
     backend_client |-> TRUE]

outsidePipeline == <<consumers, bus, aggregator, backend, capture, beside>>

PipelineInit ==
    /\ ConsumerInit
    /\ cleanup = NewCleanup
    /\ consumers = NotBuilt
    /\ bus = NotBuilt
    /\ aggregator = NotBuilt
    /\ backend = NotBuilt
    /\ capture = NotBuilt
    /\ BesideNotBuilt

\* Frames reach on_audio_chunk while the capture runs and the consumers are
\* subscribed.
PipelineAudioFrame(nonEmpty, final) ==
    /\ cleanup.pc = "running"
    /\ OnAudioChunk(nonEmpty, final)

\* A shutdown_transcription that leaves the handlers subscribed.
UnsubscribedNot(c) == c

\* pub.unsubscribe(self.realtime_consumer.on_audio_chunk, self.topic) and
\* the same for the batch consumer, the first statements of
\* shutdown_transcription.
Unsubscribed(c) == [c EXCEPT !.subscribed = FALSE]

\* self.audio_capture.stop_recording(), then pub.unsubscribe of both
\* on_audio_chunk handlers.
CleanupStopRecording ==
    /\ cleanup.pc = "running"
    /\ cleanup' = Unsubscribed([cleanup EXCEPT !.pc = "shutdown_transcription"])
    /\ UNCHANGED <<consumerVars, outsidePipeline>>

\* realtime_success = self.realtime_consumer.shutdown(timeout=30.0)
CleanupShutdownRealtime(polls) ==
    /\ cleanup.pc = "shutdown_transcription"
    /\ ShutdownCall(polls)

\* batch_success = self.batch_consumer.shutdown(timeout=30.0), called when
\* the realtime consumer's shutdown has returned; then backend.cleanup().
CleanupShutdownBatch ==
    /\ cleanup.pc = "shutdown_transcription"
    /\ shPc = "returned"
    /\ cleanup' = [cleanup EXCEPT !.pc = "realtime_aggregator",
                                  !.backend_client = FALSE]
    /\ UNCHANGED <<consumerVars, outsidePipeline>>

\* self.realtime_aggregator.shutdown(), reached when shutdown_transcription
\* has returned: unsubscribe, then print the summary with 'Total
\* transcriptions' = len(self.results), the results passed to _on_result so
\* far.
CleanupShutdownRealtimeAggregator ==
    /\ cleanup.pc = "realtime_aggregator"
    /\ cleanup' = [cleanup EXCEPT !.pc = "batch_aggregator",
                                  !.summary_count = Len(emitted)]
    /\ UNCHANGED <<consumerVars, outsidePipeline>>

\* self.batch_aggregator.shutdown()
CleanupShutdownBatchAggregator ==
    /\ cleanup.pc = "batch_aggregator"
    /\ cleanup' = [cleanup EXCEPT !.pc = "done"]
    /\ UNCHANGED <<consumerVars, outsidePipeline>>

PipelineNext ==
    \/ \E nonEmpty \in BOOLEAN, final \in BOOLEAN :
           PipelineAudioFrame(nonEmpty, final)
    \/ OnAudioChunkPut
    \/ \E w \in Workers : Worker(w)
    \/ CleanupStopRecording
    \/ \E polls \in 0..MaxPolls : CleanupShutdownRealtime(polls)
    \/ Shutdown
    \/ CleanupShutdownBatch
    \/ CleanupShutdownRealtimeAggregator
    \/ CleanupShutdownBatchAggregator

PipelineSpec == PipelineInit /\ [][PipelineNext]_vars

\* C16: cleanup stops the audio source, then shuts every consumer down, then
\* the aggregators: no frame is handled after the stop, the summary is
\* printed only when the consumers' shutdown calls have returned, and when
\* the consumer's shutdown returned True every result it emitted is counted
\* in the summary.
C16_CleanupOrder ==
    /\ shPc # "idle" => cleanup.pc # "running"
    /\ cleanup.summary_count # None =>
           /\ shPc = "returned"
           /\ cleanup.pc \in {"batch_aggregator", "done"}
           /\ shutdown_ret => cleanup.summary_count = Len(emitted)

\* ======================================================================
\* GoogleSpeechBackend.transcribe_chunk as one worker calls it through
\* _transcribe_with_backend. The answer of the speech service is the input:
\* hypotheses, no hypothesis, or one of the failures of client.recognize.
\* backend.calls records every call, backend.passed the results handed to
\* result_callback (the aggregator's _on_result).
MaxCalls == 3

FailureKinds == {"DeadlineExceeded", "ServiceUnavailable", "GoogleAPICallError"}
Responses == {"hypotheses", "zero_hypotheses"} \cup FailureKinds

NoSpeechMarker == "[NO_SPEECH_DETECTED]"

\* TranscriptionResult(text=..., confidence=..., chunk_id=chunk_id,
\* is_final=True) with the backend's own chunk_id and the default mode.
NewResult(text, confidence) ==
    [text |-> text, confidence |-> confidence, chunk_id |-> "google_0",
     transcription_mode |-> "realtime", is_final |-> TRUE]

\* What a call that raised leaves in the record of the call.
NoResult == NewResult("", 0)

\* The outcome of one call: an exception, or a returned result.
Raise(exception) ==
    [raised |-> TRUE, exception |-> exception, result |-> NoResult]
Return(result) ==
    [raised |-> FALSE, exception |-> "", result |-> result]

\* The transcript and the confidence (in hundredths) of the first
\* alternative of an answer with hypotheses.
HypothesisTranscript == "hello"
HypothesisConfidence == 90

\* A transcribe_chunk without the except clause: a failure of recognize
\* leaves the method as an exception.
TranscribeChunkRaising(response) ==
    IF response = "zero_hypotheses" THEN Return(NewResult("", 0))
    ELSE IF response = "hypotheses" THEN Return(NewResult(HypothesisTranscript, HypothesisConfidence))
    ELSE Raise(response)

\* try: response = self.client.recognize(...); if not response.results:
\* text="" confidence=0.0, else the first alternative; except Exception as
\* e: text=f"[ERROR: {type(e).__name__}]", confidence=0.0; return result.
TranscribeChunk(response) ==
    IF response = "zero_hypotheses" THEN Return(NewResult("", 0))
    ELSE IF response = "hypotheses" THEN Return(NewResult(HypothesisTranscript, HypothesisConfidence))
    ELSE Return(NewResult("[ERROR: " \o response \o "]", 0))

\* _update_stats(result) / _update_stats(result, error=e)
UpdateStats(stats, failed) ==
    [stats EXCEPT !.total_requests = @ + 1,
                  !.failed_requests = IF failed THEN @ + 1 ELSE @,
                  !.successful_requests = IF failed THEN @ ELSE @ + 1]

NewBackend ==
    [client |-> TRUE, pc |-> "idle", chunk_id |-> "", calls |-> <<>>,
     passed |-> <<>>,
     stats |-> [total_requests |-> 0, successful_requests |-> 0,
                failed_requests |-> 0]]

outsideBackend == <<consumerVars, cleanup, consumers, bus, aggregator, capture, beside>>

BackendInit ==
    /\ ConsumerParked
    /\ backend = NewBackend
    /\ cleanup = NotBuilt
    /\ consumers = NotBuilt
    /\ bus = NotBuilt
    /\ aggregator = NotBuilt
    /\ capture = NotBuilt
    /\ BesideNotBuilt

Call(chunk_id, response, outcome) ==
    [chunk_id |-> chunk_id, response |-> response, raised |-> outcome.raised,
     exception |-> outcome.exception, result |-> outcome.result]

\* _transcribe_buffer composes the chunk_id and calls transcribe_chunk,
\* which raises RuntimeError at once when there is no client.
WorkerCallBackend ==
    /\ backend.pc = "idle"
    /\ Len(backend.calls) < MaxCalls
    /\ LET n == Len(backend.calls) + 1
           chunk_id == ComposeChunkId(name, FrameChunkId(n), FrameChunkId(n),
                                      n, FALSE)
       IN IF backend.client
          THEN backend' = [backend EXCEPT !.pc = "recognize",
                                          !.chunk_id = chunk_id]
          ELSE backend' = [backend EXCEPT
                   !.calls = Append(@, Call(chunk_id, "no_client",
                                            Raise("RuntimeError")))]
    /\ UNCHANGED outsideBackend

\* client.recognize answers; transcribe_chunk ends; a returned result gets
\* the worker's chunk_id and transcription_mode and goes to result_callback.
RecognizeReturn(response) ==
    /\ backend.pc = "recognize"
    /\ LET outcome == TranscribeChunk(response)
           decorated == [outcome.result EXCEPT
                             !.chunk_id = backend.chunk_id,
                             !.transcription_mode = name]
       IN backend' = [backend EXCEPT
              !.pc = "idle",
              !.chunk_id = "",
              !.calls = Append(@, Call(backend.chunk_id, response, outcome)),
              !.passed = IF outcome.raised THEN @ ELSE Append(@, decorated),
              !.stats = IF outcome.raised THEN @
                        ELSE UpdateStats(@, response \in FailureKinds)]
    /\ UNCHANGED outsideBackend

\* GoogleSpeechBackend.cleanup: self.client = None.
BackendCleanup ==
    /\ backend.client
    /\ backend' = [backend EXCEPT !.client = FALSE]
    /\ UNCHANGED outsideBackend

BackendNext ==
    \/ WorkerCallBackend
    \/ \E response \in Responses : RecognizeReturn(response)
    \/ BackendCleanup

BackendSpec == BackendInit /\ [][BackendNext]_vars

\* _get_full_transcription: the texts that are neither empty nor the
\* no-speech marker, joined by single spaces.
RECURSIVE ValidResults(_)
ValidResults(results) ==
    IF results = <<>> THEN <<>>
    ELSE LET text == Head(results).text
         IN (IF text # "" /\ text # NoSpeechMarker THEN <<text>> ELSE <<>>)
            \o ValidResults(Tail(results))

RECURSIVE Join(_)
Join(texts) ==
    IF texts = <<>> THEN ""
    ELSE IF Len(texts) = 1 THEN texts[1]
    ELSE texts[1] \o " " \o Join(Tail(texts))

GetFullTranscription(results) == Join(ValidResults(results))

\* ------------------------------------------------------------ observations
FailedCalls == {i \in 1..Len(backend.calls) : backend.calls[i].response \in FailureKinds}
PassedIds == {backend.passed[i].chunk_id : i \in 1..Len(backend.passed)}

C18_NoSpeechMarker ==
    /\ \A i \in 1..Len(backend.calls) :
           LET call == backend.calls[i]
           IN (~call.raised /\ call.result.text = NoSpeechMarker
                            /\ call.result.confidence = 0)
              <=> call.response = "zero_hypotheses"
    /\ LET kept(r) == r.text \notin {"", NoSpeechMarker}
           texts == [i \in 1..Len(SelectSeq(backend.passed, kept)) |->
                        SelectSeq(backend.passed, kept)[i].text]
       IN GetFullTranscription(backend.passed) = Join(texts)

\* ======================================================================
\* AudioCapture: start_recording and stop_recording called by one
\* controlling thread, the recording threads running _record_continuously
\* one statement at a time, and a consumer thread calling get_audio_chunk.
\* Chunks are numbered in the order the stream delivers them.
MaxChunks == 3
MaxStarts == 2
MaxBufferSize == 2

RecThreads == 1..MaxStarts

\* AudioCapture.__init__; position "none" is a thread not yet started.
\* taken, session_taken, lost and last_call observe the run: the chunks
\* get_audio_chunk returned, how many of them since the last effective
\* start, the chunks that never entered the queue, and the last call.
NewCapture(buffer_size) ==
    [buffer_size |-> buffer_size, audio_queue |-> <<>>,
     is_recording |-> FALSE, stop_event |-> FALSE,
     total_chunks |-> 0, dropped_chunks |-> 0,
     recording_thread |-> 0,
     pc |-> [t \in RecThreads |-> "none"],
     audio_chunk |-> [t \in RecThreads |-> 0],
     stop_pc |-> "idle", stream_chunks |-> 0,
     taken |-> <<>>, session_taken |-> 0, lost |-> {},
     last_call |-> "none"]

outsideCapture == <<consumerVars, cleanup, consumers, bus, aggregator, backend, beside>>

CaptureInit ==
    /\ ConsumerParked
    /\ \E buffer_size \in 1..MaxBufferSize : capture = NewCapture(buffer_size)
    /\ cleanup = NotBuilt
    /\ consumers = NotBuilt
    /\ bus = NotBuilt
    /\ aggregator = NotBuilt
    /\ backend = NotBuilt
    /\ BesideNotBuilt

\* self.recording_thread.join(timeout=2.0) returns when the thread has
\* ended or when the two seconds are over.
JoinReturns(exited) == TRUE

\* start_recording: ignored while recording; else clear stop_event, reset
\* the statistics, start a new thread, set is_recording.
StartRecording ==
    /\ capture.stop_pc = "idle"
    /\ IF capture.is_recording
       THEN capture' = [capture EXCEPT !.last_call = "start_ignored"]
       ELSE /\ capture.recording_thread < MaxStarts
            /\ capture' = [capture EXCEPT
                   !.stop_event = FALSE,
                   !.total_chunks = 0,
                   !.dropped_chunks = 0,
                   !.recording_thread = @ + 1,
                   !.pc[capture.recording_thread + 1] = "loop",
                   !.is_recording = TRUE,
                   !.session_taken = 0,
                   !.last_call = "start"]
    /\ UNCHANGED outsideCapture

\* stop_recording: ignored while not recording; else set stop_event and go
\* on to the join (skipped when the thread is not alive).
StopRecording ==
    /\ capture.stop_pc = "idle"
    /\ IF ~capture.is_recording
       THEN capture' = [capture EXCEPT !.last_call = "stop_ignored"]
       ELSE capture' = [capture EXCEPT !.stop_event = TRUE,
                                       !.stop_pc = "join",
                                       !.last_call = "stop"]
    /\ UNCHANGED outsideCapture

\* The join ends; self.is_recording = False.
StopRecordingJoin ==
    /\ capture.stop_pc = "join"
    /\ JoinReturns(capture.pc[capture.recording_thread] = "exited")
    /\ capture' = [capture EXCEPT !.stop_pc = "idle", !.is_recording = FALSE]
    /\ UNCHANGED outsideCapture

\* while not self.stop_event.is_set(): stream.read, audio_data.append,
\* self.total_chunks += 1.
RecorderRead(t) ==
    /\ capture.pc[t] = "loop"
    /\ IF capture.stop_event
       THEN capture' = [capture EXCEPT !.pc[t] = "exited"]
       ELSE /\ capture.stream_chunks < MaxChunks
            /\ capture' = [capture EXCEPT
                   !.stream_chunks = @ + 1,
                   !.audio_chunk[t] = capture.stream_chunks + 1,
                   !.total_chunks = @ + 1,
                   !.pc[t] = "put"]
    /\ UNCHANGED outsideCapture

\* self.audio_queue.put_nowait(audio_chunk); Full goes to the except clause.
RecorderPut(t) ==
    /\ capture.pc[t] = "put"
    /\ IF Len(capture.audio_queue) < capture.buffer_size
       THEN capture' = [capture EXCEPT
                !.audio_queue = Append(@, capture.audio_chunk[t]),
                !.pc[t] = "loop"]
       ELSE capture' = [capture EXCEPT !.pc[t] = "full"]
    /\ UNCHANGED outsideCapture

\* except: try: self.audio_queue.get_nowait(); Empty goes to the inner
\* except clause, which counts the new chunk as dropped.
RecorderGetOldest(t) ==
    /\ capture.pc[t] = "full"
    /\ IF capture.audio_queue # <<>>
       THEN capture' = [capture EXCEPT !.audio_queue = Tail(@),
                                       !.pc[t] = "reput"]
       ELSE capture' = [capture EXCEPT
                !.dropped_chunks = @ + 1,
                !.lost = @ \cup {capture.audio_chunk[t]},
                !.pc[t] = "loop"]
    /\ UNCHANGED outsideCapture

\* self.audio_queue.put_nowait(audio_chunk); self.dropped_chunks += 1; a
\* Full here goes to the inner except clause as well.
RecorderReput(t) ==
    /\ capture.pc[t] = "reput"
    /\ IF Len(capture.audio_queue) < capture.buffer_size
       THEN capture' = [capture EXCEPT
                !.audio_queue = Append(@, capture.audio_chunk[t]),
                !.dropped_chunks = @ + 1,
                !.pc[t] = "loop"]
       ELSE capture' = [capture EXCEPT
                !.dropped_chunks = @ + 1,
                !.lost = @ \cup {capture.audio_chunk[t]},
                !.pc[t] = "loop"]
    /\ UNCHANGED outsideCapture

Recorder(t) ==
    \/ RecorderRead(t)
    \/ RecorderPut(t)
    \/ RecorderGetOldest(t)
    \/ RecorderReput(t)

\* get_audio_chunk: self.audio_queue.get_nowait(), None when it is empty.
GetAudioChunk ==
    /\ IF capture.audio_queue # <<>>
       THEN capture' = [capture EXCEPT
                !.taken = Append(@, Head(capture.audio_queue)),
                !.session_taken = @ + 1,
                !.audio_queue = Tail(@),
                !.last_call = "get"]
       ELSE capture' = [capture EXCEPT !.last_call = "get_none"]
    /\ UNCHANGED outsideCapture

CaptureNext ==
    \/ StartRecording
    \/ StopRecording
    \/ StopRecordingJoin
    \/ \E t \in RecThreads : Recorder(t)
    \/ GetAudioChunk

CaptureSpec == CaptureInit /\ [][CaptureNext]_vars

\* ------------------------------------------------------------ observations
AliveThreads == {t \in RecThreads : capture.pc[t] \notin {"none", "exited"}}
BetweenChunks == \A t \in RecThreads : capture.pc[t] \in {"none", "loop", "exited"}
LeftInOrder == capture.taken \o capture.audio_queue

\* C19: the queue never holds more than buffer_size chunks; a chunk captured
\* while the queue is full replaces the oldest one, so every captured chunk
\* enters the queue and chunks leave it in capture order; and whenever no
\* recording thread is in the middle of a chunk, total_chunks = chunks taken
\* + chunks queued + dropped_chunks.
C19_QueueAccounting ==
    /\ Len(capture.audio_queue) <= capture.buffer_size
    /\ capture.lost = {}
    /\ \A i, j \in 1..Len(LeftInOrder) : i < j => LeftInOrder[i] < LeftInOrder[j]
    /\ BetweenChunks =>
           capture.total_chunks = capture.session_taken
                                  + Len(capture.audio_queue)
                                  + capture.dropped_chunks

\* C20: is_recording is true exactly between a start_recording and the
\* following stop_recording, and at most one recording thread captures at
\* a time.
C20_TwoStateMachine ==
    /\ capture.stop_pc = "idle" =>
           (capture.is_recording <=>
                (capture.recording_thread > 0 /\ ~capture.stop_event))
    /\ ~capture.stop_event => Cardinality(AliveThreads) <= 1

\* ======================================================================
\* Further properties of the consumer (Spec, FairSpec).

\* C21: once shutdown() has set shutdown_event, an on_audio_chunk call
\* changes neither audio_events, audio_buffer, chunks_in_buffer nor
\* task_queue (it starts no enqueue either), and the event is never cleared.
C21_DrainingDropsFrames ==
    /\ [][(shutdown_event /\ nextSeq' # nextSeq) =>
             UNCHANGED <<bufferVars, task_queue, srcPc, pendingTask>>]_vars
    /\ [][shutdown_event => shutdown_event']_vars

\* A frame arrived after shutdown() was called and was dropped, with frames
\* accumulated before it still in the buffer.
C21_Witness ==
    /\ shutdown_event
    /\ nextSeq > Len(received)
    /\ audio_events # <<>>

\* C22 as stated: when the consumer's shutdown() returns, its handler is no
\* longer subscribed and the backend has been cleaned up.
C22_ShutdownUnsubscribesAndCleans ==
    shPc = "returned" => ~cleanup.subscribed /\ ~cleanup.backend_client

\* C22 amended: shutdown() itself sets the event, waits for the drain, puts
\* one sentinel per worker and joins the workers, in this order; the
\* handlers are unsubscribed by shutdown_transcription before it calls
\* shutdown(), and the backend is cleaned up by shutdown_transcription only
\* after the shutdown() of every consumer has returned.
C22_ServiceShutdownOrder ==
    /\ shutdown_event => ~cleanup.subscribed
    /\ shPc = "poll" => shutdown_event /\ sentinelsPut = 0
    /\ sentinelsPut > 0 => shPc \in {"sentinels", "join", "returned"}
    /\ shPc \in {"join", "returned"} => sentinelsPut = max_concurrent_threads
    /\ shPc \in {"idle", "poll", "sentinels", "join"} => cleanup.backend_client
    /\ ~cleanup.backend_client <=>
           cleanup.pc \in {"realtime_aggregator", "batch_aggregator", "done"}

\* shutdown_transcription has returned: the consumer's shutdown() returned,
\* the handlers are unsubscribed and the backend is cleaned up.
C22_Witness ==
    /\ shPc = "returned"
    /\ cleanup.pc = "realtime_aggregator"
    /\ ~cleanup.subscribed
    /\ ~cleanup.backend_client

\* ======================================================================
\* Further properties of the two consumers on the bus (ServiceSpec).
ResultsOf(c) == bus.published[ResultTopic(c)]

\* C23: a task's is_final is the final flag of the frame that triggered its
\* flush (the last frame it holds), so a task flushed by the count on a
\* non-final frame is not final; a final task is the last task of its
\* consumer; and every result carries the is_final of its task, the task
\* whose last frame and suffix its chunk_id names.
C23_IsFinal ==
    \A c \in ConsumerSet :
        /\ \A i \in 1..Len(consumers[c].task_queue) :
               LET task == consumers[c].task_queue[i]
                   last_event == task.audio_events[Len(task.audio_events)]
               IN /\ task.is_final = last_event.final
                  /\ task.is_final => task.tid = consumers[c].dispatched
        /\ \A i \in 1..Len(ResultsOf(c)) :
               LET result == ResultsOf(c)[i]
               IN /\ \E b \in 1..Len(AudioPublished), a \in 1..MaxBusFrames,
                         n \in 1..consumers[c].chunk_counter :
                         /\ a <= b
                         /\ result.chunk_id =
                                ComposeChunkId(c, FrameChunkId(a), FrameChunkId(b),
                                               n, AudioPublished[b].final)
                         /\ result.is_final = AudioPublished[b].final
                  /\ result.is_final => i = Len(ResultsOf(c))

\* Three non-empty frames and then an empty final frame with trigger_chunks
\* 2: a task of two frames that is not final, then the final task with the
\* remaining frame.
C23_Witness ==
    \E c \in ConsumerSet :
        /\ consumers[c].trigger_chunks = 2
        /\ NonEmptyOf(c) = 3
        /\ Len(FramesOf(c)) = 4
        /\ FramesOf(c)[4].final /\ FramesOf(c)[4].audio_data = <<>>
        /\ Len(ResultsOf(c)) = 2
        /\ ~ResultsOf(c)[1].is_final
        /\ ResultsOf(c)[2].is_final
        /\ ResultsOf(c)[2].chunk_id =
               ComposeChunkId(c, FrameChunkId(3), FrameChunkId(4), 2, TRUE)

\* ======================================================================
\* The audio window of a result. One consumer is fed frames that carry a
\* capture timestamp and a duration, both in milliseconds; the timestamps
\* are inputs that never decrease. bus.published logs the frames and the
\* results as in ServiceSpec, bus.tasks the tasks in the order they were
\* enqueued, bus.clock the timestamp of the last frame.
MaxTimedFrames == 4

\* 1024 samples of 16-bit mono audio at 16 kHz: 2048 bytes.
FrameBytes == 2048
BytesPerSecond == 32000

\* AudioEvent.__post_init__: chunk_duration_ms stays None for empty
\* audio_data, else int(len(audio_data) / bytes_per_second * 1000).
ChunkDurationMs(nonEmpty) ==
    IF nonEmpty THEN (FrameBytes * 1000) \div BytesPerSecond ELSE None

\* The duration of a captured frame.
FrameMs == ChunkDurationMs(TRUE)

\* By how much the timestamp of a frame may exceed that of the frame before:
\* nothing, one frame duration (contiguous capture), or two (a gap).
Gaps == {0, FrameMs, 2 * FrameMs}

TimedAudioEvent(seq, nonEmpty, final, timestamp) ==
    [chunk_id |-> FrameChunkId(seq),
     audio_data |-> IF nonEmpty THEN <<seq>> ELSE <<>>,
     sequence_number |-> seq, final |-> final,
     timestamp |-> timestamp, chunk_duration_ms |-> ChunkDurationMs(nonEmpty)]

outsideWindow == <<consumerVars, cleanup, aggregator, backend, capture, beside>>

WindowInit ==
    /\ ConsumerParked
    /\ \E trigger \in 1..MaxTrigger :
         consumers = [c \in {name} |-> NewConsumer(trigger)]
    /\ bus = [published |-> [t \in {AudioTopic, ResultTopic(name)} |-> <<>>],
              tasks |-> <<>>, clock |-> 0, final_sent |-> FALSE]
    /\ cleanup = NotBuilt
    /\ aggregator = NotBuilt
    /\ backend = NotBuilt
    /\ capture = NotBuilt
    /\ BesideNotBuilt

\* The source publishes a frame and on_audio_chunk handles it.
WindowFrame(nonEmpty, final, gap) ==
    /\ Len(bus.published[AudioTopic]) < MaxTimedFrames
    /\ ~bus.final_sent
    /\ LET event == TimedAudioEvent(Len(bus.published[AudioTopic]) + 1,
                                    nonEmpty, final, bus.clock + gap)
           cons == HandleAudioChunk(consumers[name], event)
       IN /\ consumers' = [consumers EXCEPT ![name] = cons]
          /\ bus' = [bus EXCEPT
                !.published[AudioTopic] = Append(@, event),
                !.clock = event.timestamp,
                !.final_sent = final,
                !.tasks = IF cons.dispatched > consumers[name].dispatched
                          THEN Append(@, cons.task_queue[Len(cons.task_queue)])
                          ELSE @]
    /\ UNCHANGED outsideWindow

\* (last_event.chunk_duration_ms or 0)
DurationOrZero(event) ==
    IF event.chunk_duration_ms = None THEN 0 ELSE event.chunk_duration_ms

\* A worker that takes the timestamp of the last frame as the end.
DecorateTimesNoDuration(result, task) ==
    [result EXCEPT
        !.audio_start_time = task.audio_events[1].timestamp,
        !.audio_end_time = task.audio_events[Len(task.audio_events)].timestamp]

\* audio_start_time = first_event.timestamp; audio_end_time =
\* last_event.timestamp + (last_event.chunk_duration_ms or 0) / 1000.0
DecorateTimes(result, task) ==
    LET first_event == task.audio_events[1]
        last_event == task.audio_events[Len(task.audio_events)]
    IN [result EXCEPT
           !.audio_start_time = first_event.timestamp,
           !.audio_end_time = last_event.timestamp + DurationOrZero(last_event)]

\* A worker takes the next task; the backend returns a result, which is
\* decorated and passed to result_callback.
WindowTranscribe ==
    /\ consumers[name].task_queue # <<>>
    /\ LET task == Head(consumers[name].task_queue)
           result == DecorateTimes([tid |-> task.tid, audio_start_time |-> None,
                                    audio_end_time |-> None], task)
       IN /\ consumers' = [consumers EXCEPT ![name].task_queue = Tail(@),
                                            ![name].chunk_counter = @ + 1]
          /\ bus' = [bus EXCEPT !.published[ResultTopic(name)] = Append(@, result)]
    /\ UNCHANGED outsideWindow

WindowNext ==
    \/ \E nonEmpty \in BOOLEAN, final \in BOOLEAN, gap \in Gaps :
           WindowFrame(nonEmpty, final, gap)
    \/ WindowTranscribe

WindowSpec == WindowInit /\ [][WindowNext]_vars

\* ------------------------------------------------------------ observations
WindowResults == bus.published[ResultTopic(name)]
\* window_seconds, of which trigger_chunks is the number of frames.
WindowMs == consumers[name].trigger_chunks * FrameMs
Span(result) == result.audio_end_time - result.audio_start_time
\* Every frame of the task is non-empty and starts where the one before it
\* ends.
Contiguous(task) ==
    \A i \in 1..Len(task.audio_events) :
        /\ task.audio_events[i].audio_data # <<>>
        /\ i > 1 => task.audio_events[i].timestamp =
                        task.audio_events[i - 1].timestamp + FrameMs
TimesOfTask(result) ==
    LET events == bus.tasks[result.tid].audio_events
    IN /\ result.audio_start_time = events[1].timestamp
       /\ result.audio_end_time =
              events[Len(events)].timestamp
              + (IF events[Len(events)].audio_data = <<>> THEN 0 ELSE FrameMs)
       /\ result.audio_start_time <= result.audio_end_time

\* C24 as stated: every result starts at the timestamp of the first frame of
\* its task and ends at the timestamp of the last frame plus its duration,
\* so start <= end, and the window is at most window_seconds plus one frame
\* duration long.
C24_AudioWindow ==
    \A i \in 1..Len(WindowResults) :
        /\ TimesOfTask(WindowResults[i])
        /\ Span(WindowResults[i]) <= WindowMs + FrameMs

\* C24 amended: start and end are as stated and start <= end. The length of
\* the window is bounded by window_seconds plus one frame duration for a
\* task of non-empty frames captured back to back; empty frames, which do
\* not count towards trigger_chunks, and gaps between timestamps make it
\* longer.
C24_AudioWindowOfContiguousFrames ==
    \A i \in 1..Len(WindowResults) :
        /\ TimesOfTask(WindowResults[i])
        /\ Contiguous(bus.tasks[WindowResults[i].tid]) =>
               Span(WindowResults[i]) <= WindowMs + FrameMs

\* A result whose window is longer than window_seconds plus one frame
\* duration, and one of a task of contiguous frames that fills the window.
C24_Witness ==
    \E i, j \in 1..Len(WindowResults) :
        /\ Span(WindowResults[i]) > WindowMs + FrameMs
        /\ Contiguous(bus.tasks[WindowResults[j].tid])
        /\ Span(WindowResults[j]) = WindowMs

\* ======================================================================
\* Further properties of the aggregator (AggregatorSpec).

\* C25: after any sequence of results, in any arrival order, the coverage
\* start is the smallest audio_start_time and the coverage end the largest
\* audio_end_time of the results that have both times; results lacking a
\* time are appended and leave the coverage unset or as it was.
C25_CoverageMinMax ==
    LET timed == TimedResults(aggregator.results)
    IN IF timed = <<>>
       THEN /\ aggregator.coverage_start_time = None
            /\ aggregator.latest_end_time = None
            /\ aggregator.next_print_threshold_seconds = print_interval_seconds
       ELSE /\ aggregator.coverage_start_time = SmallestStart(timed)
            /\ aggregator.latest_end_time = LargestEnd(timed)

\* C26: a thread prints only when it does not hold the lock of _on_result,
\* so a thread that has prints to do never keeps another thread out of
\* _on_result for the time of a print; the prints decided under the lock
\* are each done once (the threshold has advanced by one interval for every
\* print done or still to do), and every delivered result is in the list
\* once.
C26_PrintsOutsideLock ==
    /\ [][\A th \in AggThreads :
            aggregator'.prints_to_do[th] < aggregator.prints_to_do[th] =>
                aggregator.lock # th /\ aggregator'.lock # th]_vars
    /\ [](LET pending == aggregator.prints_to_do
              RECURSIVE Sum(_)
              Sum(n) == IF n = 0 THEN 0 ELSE pending[n] + Sum(n - 1)
          IN /\ aggregator.next_print_threshold_seconds =
                    print_interval_seconds
                    * (1 + aggregator.periodic_prints + Sum(MaxHandlers))
             /\ \A i, j \in 1..Len(aggregator.results) :
                    (i < j /\ HasTimes(aggregator.results[i]))
                        => aggregator.results[i] # aggregator.results[j])

\* One worker is between the with block and a print it still has to do
\* while another worker is inside the with block with its own result.
C26_Witness ==
    /\ aggregator.prints_to_do[1] > 0
    /\ aggregator.lock = 2
    /\ Len(aggregator.results) = 2

\* ------------------------------------------------------------------------
\* Further properties of the consumer.

\* The tasks flushed so far, the one on its way to the queue included.
Flushed == IF srcPc = "put" THEN Append(enqueued, pendingTask) ELSE enqueued
RECURSIVE FramesIn(_)
FramesIn(tasks) ==
    IF tasks = <<>> THEN 0
    ELSE Len(tasks[1].audio_events) + FramesIn(Tail(tasks))
NonEmptyEvent(event) == Len(event.audio_data) > 0

\* C27: a flush leaves the accumulators empty; the accumulators hold the
\* frames received after the last flush and nothing of an earlier task; a
\* task that is queued or in a worker's hands is the task as it was put,
\* with the frames and the bytes of its flush.
C27_TaskOwnsItsCopy ==
    /\ [][(srcPc = "idle" /\ srcPc' = "put") =>
            /\ audio_events' = <<>>
            /\ audio_buffer' = <<>>
            /\ chunks_in_buffer' = 0]_vars
    /\ [](/\ audio_events =
               SubSeq(received, FramesIn(Flushed) + 1, Len(received))
          /\ audio_buffer = ConcatData(audio_events)
          /\ chunks_in_buffer = Len(SelectSeq(audio_events, NonEmptyEvent))
          /\ \A i \in 1..Len(task_queue) :
                IsTask(task_queue[i]) =>
                    task_queue[i] = enqueued[task_queue[i].tid]
          /\ \A w \in PoolWorkers :
                wtask[w] # NoneTask => wtask[w] = enqueued[wtask[w].tid]
          /\ \A t \in 1..Len(Flushed) :
                /\ Flushed[t].audio_events =
                       SubSeq(received,
                              FramesIn(SubSeq(Flushed, 1, t - 1)) + 1,
                              FramesIn(SubSeq(Flushed, 1, t)))
                /\ Flushed[t].audio_buffer =
                       ConcatData(Flushed[t].audio_events))

\* A frame arrived while the first task was in a worker's hands, and it is
\* in the accumulators.
C27_Witness ==
    /\ Len(enqueued) = 1
    /\ taskLog[1].taken = 1 /\ taskLog[1].done = 0
    /\ Len(received) = 2
    /\ audio_events = <<received[2]>>
    /\ \E w \in PoolWorkers : wtask[w] = enqueued[1]

\* The consumer built with any trigger the constructor accepts: it does not
\* check trigger_chunks, and with a trigger of 0 every frame is flushed, an
\* empty one too.
AnyTriggerInit ==
    /\ ConsumerInitWith(0..MaxTrigger)
    /\ cleanup = NotBuilt
    /\ consumers = NotBuilt
    /\ bus = NotBuilt
    /\ aggregator = NotBuilt
    /\ backend = NotBuilt
    /\ capture = NotBuilt
    /\ BesideNotBuilt
AnyTriggerSpec == AnyTriggerInit /\ [][Next]_vars

EmptyTasks == {t \in 1..Len(Flushed) : Flushed[t].audio_buffer = <<>>}

\* C28: a task with an empty audio_buffer never gets past the first test of
\* _transcribe_buffer (no counter value, no chunk_id, no backend call, no
\* callback) and is marked done once, when its worker is back at get();
\* the counter never exceeds the number of non-empty tasks taken; and with
\* trigger_chunks >= 1 no flushed task has an empty buffer.
C28_EmptyBufferTask ==
    /\ \A t \in EmptyTasks :
          /\ taskLog[t].counter = 0 /\ taskLog[t].chunk_id = ""
          /\ taskLog[t].outcome = "pending" /\ taskLog[t].callbacks = 0
          /\ taskLog[t].taken <= 1 /\ taskLog[t].done <= taskLog[t].taken
          /\ \A w \in PoolWorkers :
                wtask[w].tid = t => wpc[w] = "mark_done"
          /\ (taskLog[t].taken = 1 /\ taskLog[t].done = 0)
                => \E w \in PoolWorkers : wtask[w].tid = t
    /\ chunk_counter <=
          Cardinality({t \in 1..Len(enqueued) \ EmptyTasks :
                          taskLog[t].taken > 0})
    /\ trigger_chunks >= 1 => EmptyTasks = {}

\* With a trigger of 0 an empty frame was flushed into a task of its own; a
\* worker took it and marked it done, and the next task got counter value 1.
C28_Witness ==
    /\ trigger_chunks = 0
    /\ 1 \in EmptyTasks
    /\ taskLog[1].taken = 1 /\ taskLog[1].done = 1
    /\ Len(enqueued) = 2 /\ taskLog[2].counter = 1

\* C29: shutdown() puts one sentinel per worker thread; a worker leaves its
\* loop exactly by taking a sentinel, so the sentinels taken are as many as
\* the workers that exited; the sentinel a worker takes is the head of the
\* queue, so every task still waiting was put behind it, whether or not the
\* wait of shutdown() timed out; and once shutdown() has begun, every
\* worker exits and no sentinel stays in the queue.
C29_PoisonPill ==
    /\ [](/\ sentinelsPut <= max_concurrent_threads
          /\ (shPc \in {"join", "returned"})
                => sentinelsPut = max_concurrent_threads
          /\ sentinelsPut - SentinelsWaiting = Cardinality(ExitedWorkers))
    /\ [][\A w \in PoolWorkers :
            (wpc[w] # "exited" /\ wpc'[w] = "exited") =>
                /\ wpc[w] = "get"
                /\ IsSentinel(Head(task_queue))
                /\ task_queue' = Tail(task_queue)]_vars
    /\ (shPc # "idle") ~> (ExitedWorkers = PoolWorkers /\ SentinelsWaiting = 0)

\* The wait of shutdown() timed out with a task in the queue; the sentinels
\* went behind it, the task was processed, and every worker has exited.
C29_Witness ==
    /\ shPc = "returned" /\ ~drained
    /\ tasksAtShutdown = 2
    /\ \A t \in 1..2 : taskLog[t].done = 1
    /\ ExitedWorkers = PoolWorkers
    /\ task_queue = <<>>

RECURSIVE DoneCalls(_)
\* The task_done calls made for the tasks 1..n.
DoneCalls(n) == IF n = 0 THEN 0 ELSE taskLog[n].done + DoneCalls(n - 1)
\* The tasks a worker has taken and not yet marked done.
InHand == {wtask[w].tid : w \in {v \in PoolWorkers :
                                   wpc[v] \notin {"get", "exited"}}}

\* C30: every task a worker took and no longer holds has one task_done
\* call, whatever the run of _transcribe_buffer did, and every sentinel
\* taken has one; unfinished_tasks is the number of items put less the
\* number completed, is never negative, and is 0 exactly when every task
\* put is done and no sentinel waits, which is when the test of shutdown()
\* for a drained queue succeeds.
C30_TaskDoneAccounting ==
    /\ \A t \in TaskIds :
          /\ taskLog[t].done <= 1
          /\ taskLog[t].done = 1 <=> (taskLog[t].taken = 1 /\ t \notin InHand)
    /\ unfinished_tasks =
          (Len(enqueued) + sentinelsPut)
          - (DoneCalls(MaxFrames) + Cardinality(ExitedWorkers))
    /\ unfinished_tasks >= 0
    /\ unfinished_tasks = 0 <=>
          /\ \A t \in 1..Len(enqueued) : taskLog[t].done = 1
          /\ SentinelsWaiting = 0
    /\ QueueDrained <=> unfinished_tasks = 0

\* A task skipped for its empty buffer and a task whose backend call raised
\* are both done, the sentinels are taken, and nothing is unfinished.
C30_Witness ==
    /\ Len(enqueued) = 2
    /\ 1 \in EmptyTasks
    /\ taskLog[2].outcome = "backend_raised"
    /\ sentinelsPut = max_concurrent_threads
    /\ unfinished_tasks = 0

\* C31: no task stands behind a sentinel in task_queue, and once every
\* worker has exited no task is left waiting in the queue.
C31_NoTaskBehindSentinels ==
    /\ \A i, j \in 1..Len(task_queue) :
          (i < j /\ IsSentinel(task_queue[i])) => IsSentinel(task_queue[j])
    /\ ExitedWorkers = PoolWorkers => TasksWaiting = <<>>

\* ------------------------------------------------------------------------
\* Further properties of the shutdown of the pipeline.

\* C32: backend.cleanup() is called only when the consumer's shutdown() has
\* returned, and no worker begins a backend call once backend.cleanup() has
\* been called.
C32_NoBackendCallAfterCleanup ==
    /\ [](~cleanup.backend_client => shPc = "returned")
    /\ [][\A w \in PoolWorkers :
            (wpc[w] = "compose" /\ wpc'[w] = "backend")
                => cleanup.backend_client]_vars

\* ------------------------------------------------------------------------
\* Further properties of the aggregator's print threshold.

RECURSIVE PrintsToDo(_)
\* The prints decided under the lock and not done yet, of the threads 1..n.
PrintsToDo(n) == IF n = 0 THEN 0 ELSE aggregator.prints_to_do[n] + PrintsToDo(n - 1)
\* The periodic prints scheduled so far, done or still to do.
PrintsScheduled == aggregator.periodic_prints + PrintsToDo(MaxHandlers)
\* covered = self.latest_end_time - self.coverage_start_time
Covered(a) == a.latest_end_time - a.coverage_start_time
\* The thresholds (multiples of the interval) from lo up to the value hi.
Crossed(lo, hi) ==
    {k \in 1..(MaxTime \div print_interval_seconds + 1) :
        lo <= k * print_interval_seconds /\ k * print_interval_seconds <= hi}

\* C33: the threshold is the interval times the prints scheduled plus one;
\* when both coverage fields are set, the covered audio the aggregator
\* computes from them is below the threshold; the threshold never goes
\* back; and an _on_result schedules one print for each threshold its
\* coverage crosses, none that an earlier result has crossed.
C33_ThresholdInvariant ==
    /\ [](/\ aggregator.next_print_threshold_seconds
                = print_interval_seconds * (PrintsScheduled + 1)
          /\ (aggregator.coverage_start_time # None
                /\ aggregator.latest_end_time # None)
                => Covered(aggregator) < aggregator.next_print_threshold_seconds)
    /\ [][LET before == aggregator.next_print_threshold_seconds
              after == aggregator'.next_print_threshold_seconds
          IN /\ after >= before
             /\ after > before =>
                   \E th \in AggThreads :
                      /\ aggregator.prints_to_do[th] = 0
                      /\ aggregator'.prints_to_do[th]
                            = Cardinality(Crossed(before, Covered(aggregator')))
                      /\ after = before + print_interval_seconds
                                           * aggregator'.prints_to_do[th]]_vars

\* One result has taken the coverage across two thresholds and two prints
\* were scheduled for it; a second result from another thread, inside the
\* coverage, scheduled none.
C33_Witness ==
    /\ Len(aggregator.results) = 2
    /\ Covered(aggregator) = 2 * print_interval_seconds
    /\ aggregator.next_print_threshold_seconds = 3 * print_interval_seconds
    /\ aggregator.prints_to_do[1] = 2
    /\ aggregator.lock = 2 /\ aggregator.prints_to_do[2] = 0

\* ======================================================================
\* RollingSpec: RollingAudioBuffer (src/listen2me/audio/buffer.py) with
\* several threads calling add_audio_chunk, get_audio_window and clear.
\* add_audio_chunk reads the time before it takes the lock; each block
\* under 'with self.lock' is one step. A frame's data is its byte length.
\* ======================================================================
\* Number of calls made on the buffer at most.
MaxOps == 4
\* Largest chunk in bytes.
MaxChunkBytes == 3
\* Largest duration_seconds the buffer is built with.
MaxDuration == 2
\* Threads that call the buffer.
RollThreads == 1..2

\* sample_rate and channels of the buffer under test (one sample a second
\* keeps the capacity at a few bytes); 16-bit audio.
RollSampleRate == 1
RollChannels == 1
bytes_per_sample == 2

\* int(self.bytes_per_second * duration_seconds)
MaxBufferBytes(duration_seconds) ==
    (RollSampleRate * RollChannels * bytes_per_sample) * duration_seconds

\* AudioFrame(data, timestamp, frame_number)
AudioFrame(data, timestamp, frame_number) ==
    [data |-> data, timestamp |-> timestamp, frame_number |-> frame_number]

\* RollingAudioBuffer.__init__. clock is time.time(); pc, audio_data and
\* current_time are the position and the locals of each thread inside
\* add_audio_chunk; ops, last and window record the calls made.
NewRolling(duration_seconds) ==
    [max_buffer_bytes |-> MaxBufferBytes(duration_seconds),
     buffer |-> <<>>, total_bytes |-> 0, frame_counter |-> 0,
     start_time |-> None,
     clock |-> 0,
     pc |-> [th \in RollThreads |-> "idle"],
     audio_data |-> [th \in RollThreads |-> 0],
     current_time |-> [th \in RollThreads |-> 0],
     ops |-> 0, last |-> "init", window |-> <<>>]

RollingInit ==
    /\ ConsumerParked
    /\ \E duration_seconds \in 1..MaxDuration :
          rolling = NewRolling(duration_seconds)
    /\ cleanup = NotBuilt
    /\ consumers = NotBuilt
    /\ bus = NotBuilt
    /\ aggregator = NotBuilt
    /\ backend = NotBuilt
    /\ capture = NotBuilt
    /\ cleaner = NotBuilt
    /\ notes = NotBuilt
    /\ engine = NotBuilt
    /\ wiring = NotBuilt

outsideRolling == <<consumerVars, cleanup, consumers, bus, aggregator, backend,
                    capture, cleaner, notes, engine, wiring>>

\* add_audio_chunk up to the lock: an empty chunk returns at once; else the
\* time is read and start_time is set when it is None. The clock has
\* advanced by tick since the last reading.
AddAudioChunk(th, audio_data, tick) ==
    /\ rolling.pc[th] = "idle"
    /\ rolling.ops < MaxOps
    /\ IF audio_data = 0
       THEN rolling' = [rolling EXCEPT !.ops = @ + 1, !.last = "add_empty"]
       ELSE LET now == rolling.clock + tick
            IN rolling' = [rolling EXCEPT
                   !.clock = now,
                   !.current_time[th] = now,
                   !.audio_data[th] = audio_data,
                   !.start_time = IF @ = None THEN now ELSE @,
                   !.pc[th] = "lock",
                   !.ops = @ + 1, !.last = "add"]
    /\ UNCHANGED outsideRolling

\* An eviction that pops the newest frame (deque.pop).
EvictNewest(frames, total, max) ==
    IF total > max /\ frames # <<>>
    THEN [buffer |-> SubSeq(frames, 1, Len(frames) - 1),
          total_bytes |-> total - frames[Len(frames)].data]
    ELSE [buffer |-> frames, total_bytes |-> total]

RECURSIVE Evict(_, _, _)
\* while self.total_bytes > self.max_buffer_bytes and self.buffer:
\*     old_frame = self.buffer.popleft(); self.total_bytes -= len(old_frame.data)
Evict(frames, total, max) ==
    IF total > max /\ frames # <<>>
    THEN Evict(Tail(frames), total - Head(frames).data, max)
    ELSE [buffer |-> frames, total_bytes |-> total]

\* add_audio_chunk under the lock: the frame is stamped with the time read
\* before, appended, and old frames are evicted.
AddAudioChunkLocked(th) ==
    /\ rolling.pc[th] = "lock"
    /\ LET frame == AudioFrame(rolling.audio_data[th], rolling.current_time[th],
                               rolling.frame_counter)
           kept == Evict(Append(rolling.buffer, frame),
                         rolling.total_bytes + frame.data,
                         rolling.max_buffer_bytes)
       IN rolling' = [rolling EXCEPT
              !.frame_counter = @ + 1,
              !.buffer = kept.buffer,
              !.total_bytes = kept.total_bytes,
              !.pc[th] = "idle",
              !.last = "added"]
    /\ UNCHANGED outsideRolling

\* for frame in self.buffer:
\*     if target_start_time <= frame.timestamp <= target_end_time: ...
SelectedFrames(frames, target_start_time, target_end_time) ==
    SelectSeq(frames, LAMBDA frame :
        target_start_time <= frame.timestamp /\ frame.timestamp <= target_end_time)

\* get_audio_window(duration_seconds, start_offset_seconds); window is the
\* list of selected frames, empty when None is returned.
GetAudioWindow(duration_seconds, start_offset_seconds) ==
    /\ rolling.ops < MaxOps
    /\ LET target_start_time ==
               rolling.clock - start_offset_seconds - duration_seconds
           target_end_time == rolling.clock - start_offset_seconds
       IN rolling' = [rolling EXCEPT
              !.window = SelectedFrames(rolling.buffer, target_start_time,
                                        target_end_time),
              !.ops = @ + 1, !.last = "window"]
    /\ UNCHANGED outsideRolling

\* clear()
RollingClear ==
    /\ rolling.ops < MaxOps
    /\ rolling' = [rolling EXCEPT
           !.buffer = <<>>, !.total_bytes = 0, !.frame_counter = 0,
           !.start_time = None,
           !.ops = @ + 1, !.last = "clear"]
    /\ UNCHANGED outsideRolling

RollingNext ==
    \/ \E th \in RollThreads, audio_data \in 0..MaxChunkBytes, tick \in 0..1 :
          AddAudioChunk(th, audio_data, tick)
    \/ \E th \in RollThreads : AddAudioChunkLocked(th)
    \/ \E duration_seconds \in 1..MaxDuration, start_offset_seconds \in 0..1 :
          GetAudioWindow(duration_seconds, start_offset_seconds)
    \/ RollingClear

RollingSpec == RollingInit /\ [][RollingNext]_vars

RECURSIVE FrameBytesOf(_)
\* sum(len(frame.data) for frame in frames)
FrameBytesOf(frames) ==
    IF frames = <<>> THEN 0 ELSE Head(frames).data + FrameBytesOf(Tail(frames))
\* frames without its first n elements
DropFirst(frames, n) == SubSeq(frames, n + 1, Len(frames))

\* C34: total_bytes is the sum of the byte lengths of the frames in the
\* deque and never exceeds max_buffer_bytes, which is sample_rate x channels
\* x 2 x duration_seconds; an add keeps the newest frames of the deque with
\* the new frame appended, having dropped the fewest oldest frames that
\* bring the total within the capacity; an empty chunk changes nothing; and
\* after clear the deque is empty and total_bytes is 0.
C34_RollingCapacity ==
    /\ [](/\ rolling.total_bytes = FrameBytesOf(rolling.buffer)
          /\ rolling.total_bytes <= rolling.max_buffer_bytes
          /\ rolling.max_buffer_bytes \in
                {RollSampleRate * RollChannels * 2 * d : d \in 1..MaxDuration}
          /\ rolling.last = "clear" =>
                rolling.buffer = <<>> /\ rolling.total_bytes = 0)
    /\ [][\A th \in RollThreads :
            (rolling.pc[th] = "lock" /\ rolling'.pc[th] = "idle") =>
               LET all == Append(rolling.buffer,
                              AudioFrame(rolling.audio_data[th],
                                         rolling.current_time[th],
                                         rolling.frame_counter))
               IN \E n \in 0..Len(all) :
                     /\ rolling'.buffer = DropFirst(all, n)
                     /\ n > 0 => FrameBytesOf(DropFirst(all, n - 1))
                                    > rolling.max_buffer_bytes]_vars
    /\ [][(rolling'.ops # rolling.ops /\ rolling'.last = "add_empty") =>
            rolling' = [rolling EXCEPT !.ops = rolling'.ops,
                                       !.last = "add_empty"]]_vars

\* A buffer of 4 bytes held frames of 1 and 2 bytes; a frame of 2 bytes was
\* added and only the oldest frame was evicted.
C34_Witness ==
    /\ rolling.max_buffer_bytes = 4
    /\ rolling.last = "added"
    /\ Len(rolling.buffer) = 2
    /\ rolling.buffer[1].frame_number = 1 /\ rolling.buffer[1].data = 2
    /\ rolling.buffer[2].frame_number = 2 /\ rolling.buffer[2].data = 2
    /\ rolling.total_bytes = 4

\* frames is in non-decreasing timestamp order and increasing frame_number
\* order.
TimeOrdered(frames) ==
    \A i, j \in 1..Len(frames) :
        i < j => /\ frames[i].timestamp <= frames[j].timestamp
                 /\ frames[i].frame_number < frames[j].frame_number

\* C35: the frames of the deque, and the frames get_audio_window selects,
\* are in non-decreasing timestamp order and increasing frame_number order.
C35_TimeOrdered ==
    /\ TimeOrdered(rolling.buffer)
    /\ TimeOrdered(rolling.window)

\* ======================================================================
\* CleanerSpec: CleanupAggregator
\* (src/listen2me/transcription/cleanup_aggregator.py). _on_result runs
\* wholly under self.lock, the calls of cleaning_callback included, so it
\* is one step. calls lists, for each invocation of the callback, the
\* reason and the list passed to it.
\* ======================================================================
\* Number of results the cleanup aggregator receives at most.
MaxCleanResults == 3
\* The times tried are the multiples of CleanTimeStep up to MaxCleanSlots
\* steps.
MaxCleanSlots == 5
CleanTimeStep == 4
CleanTimes == {k * CleanTimeStep : k \in 0..MaxCleanSlots}

\* self.initial_threshold: float = 10.0
initial_threshold == 10
\* self.increment_threshold: float = 5.0
increment_threshold == 5

\* A TranscriptionResult as the cleanup aggregator reads it; uid tells the
\* result objects apart.
CleanResult(uid, start, end, is_final) ==
    [uid |-> uid, audio_start_time |-> start, audio_end_time |-> end,
     is_final |-> is_final]

\* CleanupAggregator.__init__
NewCleaner ==
    [results |-> <<>>, next_threshold |-> initial_threshold,
     coverage_start_time |-> None, latest_end_time |-> None,
     calls |-> <<>>]

CleanerInit ==
    /\ ConsumerParked
    /\ cleaner = NewCleaner
    /\ cleanup = NotBuilt
    /\ consumers = NotBuilt
    /\ bus = NotBuilt
    /\ aggregator = NotBuilt
    /\ backend = NotBuilt
    /\ capture = NotBuilt
    /\ rolling = NotBuilt
    /\ notes = NotBuilt
    /\ engine = NotBuilt
    /\ wiring = NotBuilt

outsideCleaner == <<consumerVars, cleanup, consumers, bus, aggregator, backend,
                    capture, rolling, notes, engine, wiring>>

\* A cleaning that passes only the newest result to the callback.
RunCleanupNewestOnly(calls, reason, results, raised) ==
    Append(calls, [reason |-> reason,
                   passed |-> SubSeq(results, Len(results), Len(results)),
                   raised |-> raised])

\* _run_cleanup_locked: the callback gets self.results.copy(); what it
\* raises is caught and logged.
RunCleanupLocked(calls, reason, results, raised) ==
    Append(calls, [reason |-> reason, passed |-> results, raised |-> raised])

RECURSIVE ThresholdRuns(_, _, _, _, _)
\* while covered >= self.next_threshold:
\*     self._run_cleanup_locked(...); self.next_threshold += self.increment_threshold
ThresholdRuns(calls, results, covered, threshold, raised) ==
    IF covered >= threshold
    THEN ThresholdRuns(RunCleanupLocked(calls, "threshold", results, raised),
                       results, covered, threshold + increment_threshold, raised)
    ELSE [calls |-> calls, next_threshold |-> threshold]

\* _on_result(result); raised tells whether cleaning_callback raises in its
\* invocations during this call.
CleanerOnResult(result, raised) ==
    /\ Len(cleaner.results) < MaxCleanResults
    /\ LET results == Append(cleaner.results, result)
           start == IF HasTimes(result)
                    THEN CoverageStart(cleaner.coverage_start_time,
                                       result.audio_start_time)
                    ELSE cleaner.coverage_start_time
           end == IF HasTimes(result)
                  THEN LatestEnd(cleaner.latest_end_time, result.audio_end_time)
                  ELSE cleaner.latest_end_time
           defined == start # None /\ end # None
           ran == IF defined
                  THEN ThresholdRuns(cleaner.calls, results, end - start,
                                     cleaner.next_threshold, raised)
                  ELSE [calls |-> cleaner.calls,
                        next_threshold |-> cleaner.next_threshold]
           triggered == ran.next_threshold # cleaner.next_threshold
       IN cleaner' = [cleaner EXCEPT
              !.results = results,
              !.coverage_start_time = start,
              !.latest_end_time = end,
              !.next_threshold = ran.next_threshold,
              !.calls = IF result.is_final /\ ~triggered
                        THEN RunCleanupLocked(ran.calls, "final", results, raised)
                        ELSE ran.calls]
    /\ UNCHANGED outsideCleaner

\* The results the workers publish, in any order: windows of audio between
\* two of the times tried that do not overlap, or a result without times;
\* any of them may be final.
CleanResultInputs(uid) ==
    {CleanResult(uid, start, end, is_final) :
        start \in CleanTimes, end \in CleanTimes, is_final \in BOOLEAN}
    \cup {CleanResult(uid, None, None, is_final) : is_final \in BOOLEAN}

CleanerNext ==
    \E result \in CleanResultInputs(Len(cleaner.results) + 1), raised \in BOOLEAN :
        /\ HasTimes(result) => result.audio_start_time < result.audio_end_time
        /\ Disjoint(result, cleaner.results)
        /\ CleanerOnResult(result, raised)

CleanerSpec == CleanerInit /\ [][CleanerNext]_vars

\* Covered audio of the results received: from the smallest start to the
\* largest end of the results that carry times.
CleanCovered ==
    LET timed == TimedResults(cleaner.results)
        starts == {timed[i].audio_start_time : i \in 1..Len(timed)}
        ends == {timed[i].audio_end_time : i \in 1..Len(timed)}
    IN IF timed = <<>> THEN 0
       ELSE (CHOOSE e \in ends : \A x \in ends : x <= e)
            - (CHOOSE b \in starts : \A x \in starts : b <= x)
ThresholdCalls == SelectSeq(cleaner.calls, LAMBDA c : c.reason = "threshold")

\* C36: with C the covered audio of the results received, the number of
\* threshold-triggered cleanings is 0 while C < 10 and floor((C - 10) / 5)
\* + 1 from then on; and every final result is in the list of at least one
\* cleaning.
C36_TriggerPolicy ==
    /\ Len(ThresholdCalls) =
          IF CleanCovered >= 10 THEN (CleanCovered - 10) \div 5 + 1 ELSE 0
    /\ \A i \in 1..Len(cleaner.results) :
          cleaner.results[i].is_final =>
              \E k \in 1..Len(cleaner.calls) :
                  /\ Len(cleaner.calls[k].passed) >= i
                  /\ cleaner.calls[k].passed[i] = cleaner.results[i]

\* C37: an invocation of the cleaning callback gets every result received
\* so far, in arrival order, the one that triggered it included, so the
\* list of each invocation has the list of the one before as a prefix;
\* whether or not a callback raised, every result delivered is kept and the
\* threshold has advanced by one increment for each threshold cleaning.
C37_AllAccumulatedResults ==
    /\ [](/\ \A k \in 1..Len(cleaner.calls) :
                LET passed == cleaner.calls[k].passed
                IN /\ passed = SubSeq(cleaner.results, 1, Len(passed))
                   /\ k > 1 => Len(cleaner.calls[k - 1].passed) <= Len(passed)
          /\ \A i \in 1..Len(cleaner.results) : cleaner.results[i].uid = i
          /\ cleaner.next_threshold =
                initial_threshold + increment_threshold * Len(ThresholdCalls))
    /\ [][/\ Len(cleaner'.results) = Len(cleaner.results) + 1
          /\ SubSeq(cleaner'.calls, 1, Len(cleaner.calls)) = cleaner.calls
          /\ \A k \in (Len(cleaner.calls) + 1)..Len(cleaner'.calls) :
                cleaner'.calls[k].passed = cleaner'.results]_vars

\* A cleaning whose callback raised was followed, on a later result, by a
\* cleaning that got all three results.
C37_Witness ==
    /\ Len(cleaner.calls) >= 2
    /\ cleaner.calls[1].raised /\ Len(cleaner.calls[1].passed) = 2
    /\ Len(cleaner.calls[Len(cleaner.calls)].passed) = 3
    /\ cleaner.next_threshold > initial_threshold + increment_threshold

\* ======================================================================
\* NotesSpec: NotesService.get_processed_chunks
\* (src/listen2me/services/notes_service.py) polled by one client for the
\* active session. The recording service hands out two growing lists, the
\* realtime and the batch results; a transcription is its uid and its
\* timestamp, and timestamps are handed out by one clock.
\* ======================================================================
\* Number of transcriptions of the session at most.
MaxTranscriptions == 3
\* Number of polls at most.
MaxNotePolls == 3
\* Largest limit of a query.
MaxLimit == 2
\* query.limit of a query without a limit (Optional[int] = None).
NoLimit == 0

Transcription(uid, timestamp) == [uid |-> uid, timestamp |-> timestamp]

\* NotesService.__init__ and the session's lists. client_watermark is
\* self._client_watermarks[session_id]; passed is the new_high_watermark of
\* the last response, which the client passes in its next query; returned
\* lists the transcriptions of all responses.
NewNotes ==
    [all_realtime_attempts |-> <<>>, all_batch_attempts |-> <<>>, clock |-> 0,
     client_watermark |-> None, passed |-> None,
     returned |-> <<>>, polls |-> 0]

NotesInit ==
    /\ ConsumerParked
    /\ notes = NewNotes
    /\ cleanup = NotBuilt
    /\ consumers = NotBuilt
    /\ bus = NotBuilt
    /\ aggregator = NotBuilt
    /\ backend = NotBuilt
    /\ capture = NotBuilt
    /\ rolling = NotBuilt
    /\ cleaner = NotBuilt
    /\ engine = NotBuilt
    /\ wiring = NotBuilt

outsideNotes == <<consumerVars, cleanup, consumers, bus, aggregator, backend,
                  capture, rolling, cleaner, engine, wiring>>

AllTranscriptions == notes.all_realtime_attempts \o notes.all_batch_attempts

\* A result of one engine is completed and joins that engine's list.
CollectResult(mode) ==
    /\ Len(AllTranscriptions) < MaxTranscriptions
    /\ LET t == Transcription(Len(AllTranscriptions) + 1, notes.clock + 1)
       IN notes' = [notes EXCEPT
              !.clock = @ + 1,
              !.all_realtime_attempts =
                  IF mode = "realtime" THEN Append(@, t) ELSE @,
              !.all_batch_attempts =
                  IF mode = "batch" THEN Append(@, t) ELSE @]
    /\ UNCHANGED outsideNotes

\* max(chunk.updated_at for chunk in processed_chunks)
MaxTimestamp(chunks) ==
    CHOOSE m \in {chunks[i].timestamp : i \in 1..Len(chunks)} :
        \A i \in 1..Len(chunks) : chunks[i].timestamp <= m

\* [t for t in all_transcriptions if t.timestamp > high_watermark]
NewerThan(all, high_watermark) ==
    SelectSeq(all, LAMBDA t : t.timestamp > high_watermark)

\* filtered_transcriptions[:query.limit]
Limited(filtered, limit) ==
    IF limit # NoLimit /\ limit < Len(filtered)
    THEN SubSeq(filtered, 1, limit) ELSE filtered

\* get_processed_chunks(query) with query.high_watermark = the watermark of
\* the last response and query.limit = limit.
GetProcessedChunks(limit) ==
    /\ notes.polls < MaxNotePolls
    /\ LET high_watermark == IF notes.passed # None THEN notes.passed
                             ELSE notes.client_watermark
           filtered == IF high_watermark # None
                       THEN NewerThan(AllTranscriptions, high_watermark)
                       ELSE AllTranscriptions
           processed_chunks == Limited(filtered, limit)
           new_high_watermark == IF processed_chunks # <<>>
                                 THEN MaxTimestamp(processed_chunks) ELSE None
       IN notes' = [notes EXCEPT
              !.client_watermark = IF new_high_watermark # None
                                   THEN new_high_watermark ELSE @,
              !.passed = new_high_watermark,
              !.returned = @ \o processed_chunks,
              !.polls = @ + 1]
    /\ UNCHANGED outsideNotes

NotesNext ==
    \/ \E mode \in ConsumerSet : CollectResult(mode)
    \/ \E limit \in {NoLimit} \cup 1..MaxLimit : GetProcessedChunks(limit)

NotesSpec == NotesInit /\ [][NotesNext]_vars

\* The watermark the next query will be filtered by.
NextWatermark ==
    IF notes.passed # None THEN notes.passed ELSE notes.client_watermark

\* C38: no transcription is in two responses, and none is skipped: every
\* transcription the next query will filter out, its timestamp being at or
\* below the watermark, has been returned.
C38_ExactlyOnce ==
    /\ \A i, j \in 1..Len(notes.returned) :
          i # j => notes.returned[i].uid # notes.returned[j].uid
    /\ \A k \in 1..Len(AllTranscriptions) :
          (NextWatermark # None
             /\ AllTranscriptions[k].timestamp <= NextWatermark)
            => \E i \in 1..Len(notes.returned) :
                  notes.returned[i] = AllTranscriptions[k]

\* ======================================================================
\* EngineSpec: the realtime half of DualTranscriptionEngine
\* (src/listen2me/transcription/dual_engine.py) over TranscriptionEngine
\* (engine.py) with one backend. Chunk k is the k-th buffer submitted; its
\* audio runs from second k - 1 to second k. The executor's threads
\* complete the backend calls in any order.
\* ======================================================================
\* Number of chunks submitted at most.
MaxEngineChunks == 3

\* The timing stored for the next results: start_time and end_time.
Timing(start_time, end_time) == [start_time |-> start_time, end_time |-> end_time]
\* self._pending_realtime_timing = None
NoTiming == Timing(None, None)
\* audio_start_time and audio_end_time of chunk k.
TimingOf(k) == Timing(k - 1, k)

\* The TranscriptionResult of chunk k as the backend returns it.
EngineResult(k) == [chunk |-> k, audio_start_time |-> None, audio_end_time |-> None]

\* DualTranscriptionEngine.__init__; pending_futures are the chunks whose
\* backend call has not returned, collected the results handed out by
\* get_completed_results.
NewEngine ==
    [total_chunks_submitted |-> 0, pending_futures |-> {},
     result_queue |-> <<>>, pending_realtime_timing |-> NoTiming,
     collected |-> <<>>]

EngineInit ==
    /\ ConsumerParked
    /\ engine = NewEngine
    /\ cleanup = NotBuilt
    /\ consumers = NotBuilt
    /\ bus = NotBuilt
    /\ aggregator = NotBuilt
    /\ backend = NotBuilt
    /\ capture = NotBuilt
    /\ rolling = NotBuilt
    /\ cleaner = NotBuilt
    /\ notes = NotBuilt
    /\ wiring = NotBuilt

outsideEngine == <<consumerVars, cleanup, consumers, bus, aggregator, backend,
                   capture, rolling, cleaner, notes, wiring>>

\* _submit_to_realtime_engine: realtime_engine.submit_chunk, then the
\* timing of this chunk replaces the stored one.
SubmitToRealtimeEngine ==
    /\ engine.total_chunks_submitted < MaxEngineChunks
    /\ LET k == engine.total_chunks_submitted + 1
       IN engine' = [engine EXCEPT
              !.total_chunks_submitted = k,
              !.pending_futures = @ \cup {k},
              !.pending_realtime_timing = TimingOf(k)]
    /\ UNCHANGED outsideEngine

\* TranscriptionEngine._transcribe_with_backend in an executor thread: the
\* backend returns and the result is put on result_queue.
EngineBackendReturn(k) ==
    /\ k \in engine.pending_futures
    /\ engine' = [engine EXCEPT
           !.pending_futures = @ \ {k},
           !.result_queue = Append(@, EngineResult(k))]
    /\ UNCHANGED outsideEngine

\* for result in realtime_results: result.audio_start_time = timing[...]
Enhanced(results, timing) ==
    [i \in 1..Len(results) |->
        [results[i] EXCEPT !.audio_start_time = timing.start_time,
                           !.audio_end_time = timing.end_time]]

\* get_completed_results: the queue is drained; when a timing is stored and
\* there are results, every result gets that timing and the timing is
\* forgotten.
GetCompletedResults ==
    /\ LET realtime_results == engine.result_queue
           enhance == engine.pending_realtime_timing # NoTiming
                        /\ realtime_results # <<>>
       IN engine' = [engine EXCEPT
              !.result_queue = <<>>,
              !.pending_realtime_timing = IF enhance THEN NoTiming ELSE @,
              !.collected = @ \o (IF enhance
                                  THEN Enhanced(realtime_results,
                                                engine.pending_realtime_timing)
                                  ELSE realtime_results)]
    /\ UNCHANGED outsideEngine

EngineNext ==
    \/ SubmitToRealtimeEngine
    \/ \E k \in 1..MaxEngineChunks : EngineBackendReturn(k)
    \/ GetCompletedResults

EngineSpec == EngineInit /\ [][EngineNext]_vars

\* C39: every result get_completed_results has returned carries the
\* audio_start_time and audio_end_time of the chunk it was transcribed from.
C39_ResultCarriesItsTiming ==
    \A i \in 1..Len(engine.collected) :
        LET result == engine.collected[i]
        IN /\ result.audio_start_time = TimingOf(result.chunk).start_time
           /\ result.audio_end_time = TimingOf(result.chunk).end_time

\* ======================================================================
\* WiringSpec: Server.init (src/listen2me/main.py) and
\* TranscriptionService.start_transcription_consumers
\* (src/listen2me/services/transcription_service.py): the trigger of each
\* consumer computed from the audio settings and the configured windows.
\* A window is a whole number of tenths of a second, and the quotients are
\* exact.
\* ======================================================================
\* Longest window, in tenths of a second.
MaxWindowTenths == 100
TenthsPerSecond == 10

\* self.config.get('audio.sample_rate', 16000)
sample_rate == 16000
\* self.config.get('audio.chunk_size', 1024)
chunk_size == 1024

\* int(x) for x = num / den >= 0: the fraction is cut off.
IntOf(num, den) == num \div den

\* round(x) for x = num / den >= 0: to the nearest integer, a half to the
\* even one.
RoundOf(num, den) ==
    LET q == num \div den
        r == num % den
    IN IF 2 * r > den THEN q + 1
       ELSE IF 2 * r < den THEN q
       ELSE IF q % 2 = 0 THEN q ELSE q + 1

\* chunks_per_second = sample_rate / chunk_size;
\* trigger_chunks = int(chunks_per_second * duration)
TriggerChunks(window_tenths) ==
    IntOf(sample_rate * window_tenths, chunk_size * TenthsPerSecond)

\* Server.init before start_transcription_consumers, with the windows of
\* the configuration.
NewWiring(realtime_tenths, batch_tenths) ==
    [realtime_duration |-> realtime_tenths, batch_duration |-> batch_tenths,
     realtime_trigger_chunks |-> None, batch_trigger_chunks |-> None,
     pc |-> "init"]

WiringInit ==
    /\ ConsumerParked
    /\ \E realtime_tenths \in 1..MaxWindowTenths,
          batch_tenths \in 1..MaxWindowTenths :
          wiring = NewWiring(realtime_tenths, batch_tenths)
    /\ cleanup = NotBuilt
    /\ consumers = NotBuilt
    /\ bus = NotBuilt
    /\ aggregator = NotBuilt
    /\ backend = NotBuilt
    /\ capture = NotBuilt
    /\ rolling = NotBuilt
    /\ cleaner = NotBuilt
    /\ notes = NotBuilt
    /\ engine = NotBuilt

outsideWiring == <<consumerVars, cleanup, consumers, bus, aggregator, backend,
                   capture, rolling, cleaner, notes, engine>>

\* start_transcription_consumers(chunks_per_second)
StartTranscriptionConsumers ==
    /\ wiring.pc = "init"
    /\ wiring' = [wiring EXCEPT
           !.realtime_trigger_chunks = TriggerChunks(wiring.realtime_duration),
           !.batch_trigger_chunks = TriggerChunks(wiring.batch_duration),
           !.pc = "started"]
    /\ UNCHANGED outsideWiring

WiringNext == StartTranscriptionConsumers

WiringSpec == WiringInit /\ [][WiringNext]_vars

\* C40: each trigger is round(sample_rate / frame_samples x window_seconds),
\* 31 for a window of 2 s and 156 for a window of 10 s, and is positive.
C40_TriggerRounded ==
    wiring.pc = "started" =>
        /\ wiring.realtime_trigger_chunks =
              RoundOf(sample_rate * wiring.realtime_duration,
                      chunk_size * TenthsPerSecond)
        /\ wiring.batch_trigger_chunks =
              RoundOf(sample_rate * wiring.batch_duration,
                      chunk_size * TenthsPerSecond)
        /\ wiring.realtime_trigger_chunks > 0
        /\ wiring.batch_trigger_chunks > 0
        /\ wiring.realtime_duration = 2 * TenthsPerSecond
              => wiring.realtime_trigger_chunks = 31
        /\ wiring.batch_duration = 10 * TenthsPerSecond
              => wiring.batch_trigger_chunks = 156
====
